---- MODULE Spec2Model ----
(***************************************************************************)
(* PyClASVi (src/pyclasvi.py): the AST tree view (ASTOutputFrame) with its *)
(* identity index, and the navigation logic of OutputFrame: current        *)
(* selection, history, doubles, search.                                    *)
(*                                                                         *)
(* Encodings.                                                              *)
(*  - A Treeview item id (IID) 'I001', 'I002', ... is the number the       *)
(*    widget formats it from (its item counter, "serial"); '' is NoIID.    *)
(*    Where the code compares IIDs as text (list.sort) the model compares  *)
(*    IIDText(n), the digits of that format.                               *)
(*  - A clang Cursor is a name ("r", "a", ...); None is "None".            *)
(*  - A value of mapCursorToIID is a single IID (a str) or a list of IIDs  *)
(*    ("partly multimap").  The code only ever builds lists of two or more *)
(*    IIDs, so the model keeps a sequence and isinstance(x, list) is       *)
(*    Len(x) > 1; a str s is <<s>>, and None in its place is <<>>.         *)
(*  - A Python str is a sequence of one-character strings.                 *)
(*  - <<TreeviewSelect>> is a virtual event: Treeview.selection_set queues *)
(*    it and the Tk event loop delivers it to _on_selection after the      *)
(*    running handler has returned and before the next user input.         *)
(***************************************************************************)
EXTENDS Integers, Sequences, FiniteSets, TLC

VARIABLES
    \* ASTOutputFrame
    translationunit,    \* name of the shown translation unit or "None"
    mapIIDtoCursor,     \* IID -> Cursor
    mapCursorToIID,     \* Cursor -> IIDs
    cnt,                \* statistics of set_translationunit
    serial,             \* item counter of the Treeview (last IID given out)
    focus,              \* astView.focus(): the selected item or NoIID
    pendingSelect,      \* a <<TreeviewSelect>> event is queued
    \* OutputFrame
    curIID,
    curCursor,
    history,
    historyPos,
    searchResult,
    searchPos,
    historyBackwardBtn, \* state of the [<] history button
    historyForwardBtn,  \* state of the [>] history button
    doublesBtns,        \* state of both doubles buttons
    searchBtn,          \* state of the [Search] button
    searchBtns,         \* state of both search walk buttons
    marker,             \* the cursors marked with the [M#] buttons
    markerSetState,     \* the IntVar of [MS]: 1 = the next [M#] marks
    markerSetBtn,       \* state of the [MS] button
    markerBtns,         \* states of the [M#] buttons
    \* CursorOutputFrame
    outCursor,          \* cursor: the cursor the text shows
    cursorText,         \* the lines of the Text widget
    cursorList,         \* the cursors of the links in the text
    foldTree,           \* the sections of the FoldSectionTree
    show_default,       \* FoldSection.show_default
    foldMarker,         \* FoldSectionTree.marker
    \* observation of the run
    parses,             \* number of [parse] clicks so far
    walk,               \* the selections and history steps of a history walk
    cycle,              \* the start and the steps of a walk round the search result
    folds,              \* number of clicks in the output of the cursor so far
    op,                 \* the handler that ran last
    error               \* the exception it ended with, or "none"

vars == <<translationunit, mapIIDtoCursor, mapCursorToIID, cnt, serial, focus,
          pendingSelect, curIID, curCursor, history, historyPos, searchResult,
          searchPos, historyBackwardBtn, historyForwardBtn, doublesBtns,
          searchBtn, searchBtns, marker, markerSetState, markerSetBtn, markerBtns,
          outCursor, cursorText, cursorList, foldTree, show_default, foldMarker,
          parses, walk, cycle, folds, op, error>>

astVars == <<translationunit, mapIIDtoCursor, mapCursorToIID, cnt, serial>>
historyVars == <<history, historyPos, historyBackwardBtn, historyForwardBtn>>
searchVars == <<searchResult, searchPos, searchBtns>>
markerVars == <<marker, markerSetState, markerSetBtn, markerBtns>>
foldVars == <<outCursor, cursorText, cursorList, foldTree, show_default, foldMarker>>
obsVars == <<parses, walk, cycle, folds>>

----------------------------------------------------------------------------
\* Bounds of the model

\* OutputFrame._MAX_HISTORY, scaled down from 25
MAX_HISTORY == 3

\* number of times [parse] is clicked in one run
MaxParses == 2

\* number of clicks in the output of the cursor in one run of SpecFold
MaxFoldOps == 2

\* get_child on its own: the largest child number asked for and the deep of
\* the deepest section created
MaxChildNum == 1
MaxTreeDeep == 1

----------------------------------------------------------------------------
\* Constants of the program

\* OutputFrame._MARKER_BTN_CNT
MARKER_BTN_CNT == 5

\* CursorOutputFrame._MAX_DEEP, _MAX_ITER_OUT
MAX_DEEP == 8
MAX_ITER_OUT == 25

----------------------------------------------------------------------------
\* Values

NoIID == 0
None == "None"

\* Python: seq[i], a negative i counts from the end
Item(seq, i) == IF i < 0 THEN seq[Len(seq) + i + 1] ELSE seq[i + 1]

\* Python: x in seq
Contains(seq, x) == \E i \in 1..Len(seq) : seq[i] = x

\* Python: seq.index(x), for x in seq
IndexOf(seq, x) == (CHOOSE i \in 1..Len(seq) : seq[i] = x /\ \A j \in 1..(i-1) : seq[j] # x) - 1

\* Python: isinstance(iids, list) for what get_current_iids returns
IsList(iids) == Len(iids) > 1

----------------------------------------------------------------------------
\* The translation units the parser hands over: the root cursor, every
\* cursor's children, kind name and spelling.

TranslationUnits ==
    [ double |-> [ cursor   |-> "r",
                   children |-> [r |-> <<"a", "a">>, a |-> <<>>, b |-> <<>>],
                   kind     |-> [r |-> "TRANSLATION_UNIT", a |-> "VAR_DECL", b |-> "VAR_DECL"],
                   spelling |-> [r |-> <<"t">>, a |-> <<"F", "o">>, b |-> <<"f">>] ],
      chain  |-> [ cursor   |-> "r",
                   children |-> [r |-> <<"a">>, a |-> <<"b">>, b |-> <<>>],
                   kind     |-> [r |-> "TRANSLATION_UNIT", a |-> "FUNCTION_DECL", b |-> "VAR_DECL"],
                   spelling |-> [r |-> <<"t">>, a |-> <<"f">>, b |-> <<"F", "o">>] ],
      wide   |-> [ cursor   |-> "r",
                   children |-> [r |-> <<"a", "b", "c", "d">>, a |-> <<>>, b |-> <<>>,
                                 c |-> <<>>, d |-> <<>>],
                   kind     |-> [r |-> "TRANSLATION_UNIT", a |-> "VAR_DECL", b |-> "VAR_DECL",
                                 c |-> "VAR_DECL", d |-> "VAR_DECL"],
                   spelling |-> [r |-> <<"t">>, a |-> <<"f">>, b |-> <<"o">>,
                                 c |-> <<"F">>, d |-> <<"O">>] ],
      ptr    |-> [ cursor   |-> "r",
                   children |-> [r |-> <<"p">>, p |-> <<>>],
                   kind     |-> [r |-> "TRANSLATION_UNIT", p |-> "VAR_DECL"],
                   spelling |-> [r |-> <<"t">>, p |-> <<"f">>] ],
      tokens |-> [ cursor   |-> "r",
                   children |-> [r |-> <<"f", "g">>, f |-> <<>>, g |-> <<>>],
                   kind     |-> [r |-> "TRANSLATION_UNIT", f |-> "FUNCTION_DECL", g |-> "FUNCTION_DECL"],
                   spelling |-> [r |-> <<"t">>, f |-> <<"f">>, g |-> <<"o">>] ],
      comment |-> [ cursor   |-> "r",
                   children |-> [r |-> <<"e">>, e |-> <<>>],
                   kind     |-> [r |-> "TRANSLATION_UNIT", e |-> "VAR_DECL"],
                   spelling |-> [r |-> <<"t">>, e |-> <<"f">>] ],
      var    |-> [ cursor   |-> "r",
                   children |-> [r |-> <<"v">>, v |-> <<>>],
                   kind     |-> [r |-> "TRANSLATION_UNIT", v |-> "VAR_DECL"],
                   spelling |-> [r |-> <<"t">>, v |-> <<"f">>] ],
      single |-> [ cursor   |-> "r",
                   children |-> [r |-> <<>>],
                   kind     |-> [r |-> "TRANSLATION_UNIT"],
                   spelling |-> [r |-> <<"f">>] ],
      triple |-> [ cursor   |-> "r",
                   children |-> [r |-> <<"a", "a", "a">>, a |-> <<>>],
                   kind     |-> [r |-> "TRANSLATION_UNIT", a |-> "VAR_DECL"],
                   spelling |-> [r |-> <<"t">>, a |-> <<"f">>] ],
      shared |-> [ cursor   |-> "r",
                   children |-> [r |-> <<"a", "b">>, a |-> <<"c">>, b |-> <<"c">>, c |-> <<>>],
                   kind     |-> [r |-> "TRANSLATION_UNIT", a |-> "FUNCTION_DECL",
                                 b |-> "FUNCTION_DECL", c |-> "VAR_DECL"],
                   spelling |-> [r |-> <<"t">>, a |-> <<"F">>, b |-> <<"o">>, c |-> <<"f">>] ],
      nested |-> [ cursor   |-> "r",
                   children |-> [r |-> <<"a", "a">>, a |-> <<"b">>, b |-> <<>>],
                   kind     |-> [r |-> "TRANSLATION_UNIT", a |-> "FUNCTION_DECL", b |-> "VAR_DECL"],
                   spelling |-> [r |-> <<"f">>, a |-> <<"F", "o">>, b |-> <<"f">>] ] ]

\* the translation units of Spec
TUNames == {"double", "chain"}

\* the translation units of SpecIndex: without children, with a cursor that
\* is found twice or three times, alone or with its own children, and with
\* none found twice
IndexTUNames == {"single", "double", "triple", "shared", "nested", "chain", "wide"}

\* The item counter of the Treeview when the window is new (0) and when it
\* has shown translation units before: every [parse] deletes the items but
\* the counter goes on, and a translation unit of a source file with one
\* system header has some thousand cursors.
ItemCounters == {0, 4093}

----------------------------------------------------------------------------
\* ASTOutputFrame: the identity index

Max(a, b) == IF a > b THEN a ELSE b

\* ASTOutputFrame.clear: both maps empty (the items of the Treeview deleted)
EmptyMap == [x \in {} |-> None]

\* _insert_children with a plain map: a cursor found again takes the place of
\* the IID it had
RECURSIVE insert_children_no_multimap(_, _, _, _, _)
insert_children_no_multimap(a, tu, cursor, deep, i) ==
    LET children == TranslationUnits[tu].children[cursor]
    IN  IF i > Len(children)
        THEN IF Len(children) > 0
             THEN [a EXCEPT !.cnt.cntMaxChildren = Max(@, Len(children)),
                            !.cnt.cntMaxDeep = Max(@, deep)]
             ELSE a
        ELSE LET childCursor == children[i]
                 newIID == a.serial + 1
                 known == childCursor \in DOMAIN a.mapCursorToIID
                 a1 == [a EXCEPT
                          !.serial = newIID,
                          !.mapIIDtoCursor = (newIID :> childCursor) @@ @,
                          !.mapCursorToIID = (childCursor :> <<newIID>>) @@ @,
                          !.cnt.cntDouble = IF known THEN @ + 1 ELSE @]
                 a2 == insert_children_no_multimap(a1, tu, childCursor, deep + 1, 1)
                 a3 == [a2 EXCEPT !.cnt.cntCursors = @ + 1]
             IN  insert_children_no_multimap(a3, tu, cursor, deep, i + 1)

\* One run of the loop body of _insert_children for the children of `cursor`
\* from the i-th on, then the statistics after the loop.  `a` holds the
\* frame's maps, counters and the Treeview's item counter.
RECURSIVE insert_children(_, _, _, _, _)
insert_children(a, tu, cursor, deep, i) ==
    LET children == TranslationUnits[tu].children[cursor]
    IN  IF i > Len(children)
        THEN IF Len(children) > 0
             THEN [a EXCEPT !.cnt.cntMaxChildren = Max(@, Len(children)),
                            !.cnt.cntMaxDeep = Max(@, deep)]
             ELSE a
        ELSE LET childCursor == children[i]
                 newIID == a.serial + 1
                 known == childCursor \in DOMAIN a.mapCursorToIID
                 data == IF known
                         THEN Append(a.mapCursorToIID[childCursor], newIID)
                         ELSE <<newIID>>
                 a1 == [a EXCEPT
                          !.serial = newIID,
                          !.mapIIDtoCursor = (newIID :> childCursor) @@ @,
                          !.mapCursorToIID = (childCursor :> data) @@ @,
                          !.cnt.cntDouble = IF known THEN @ + 1 ELSE @,
                          !.cnt.cntMaxDoubles = IF known THEN Max(@, Len(data)) ELSE @]
                 a2 == insert_children(a1, tu, childCursor, deep + 1, 1)
                 a3 == [a2 EXCEPT !.cnt.cntCursors = @ + 1]
             IN  insert_children(a3, tu, cursor, deep, i + 1)

\* set_translationunit counting the children only, not the root
set_translationunit_root_uncounted(tu, oldSerial) ==
    LET root == TranslationUnits[tu].cursor
        iid == oldSerial + 1
        a0 == [ serial |-> iid,
                mapIIDtoCursor |-> (iid :> root),
                mapCursorToIID |-> (root :> <<iid>>),
                cnt |-> [cntCursors |-> 0, cntDouble |-> 0, cntMaxDoubles |-> 0,
                         cntMaxChildren |-> 0, cntMaxDeep |-> 0] ]
    IN  insert_children(a0, tu, root, 1, 1)

\* ASTOutputFrame.set_translationunit, from the Treeview's item counter
set_translationunit(tu, oldSerial) ==
    LET root == TranslationUnits[tu].cursor
        iid == oldSerial + 1
        a0 == [ serial |-> iid,
                mapIIDtoCursor |-> (iid :> root),
                mapCursorToIID |-> (root :> <<iid>>),
                cnt |-> [cntCursors |-> 1, cntDouble |-> 0, cntMaxDoubles |-> 0,
                         cntMaxChildren |-> 0, cntMaxDeep |-> 0] ]
    IN  insert_children(a0, tu, root, 1, 1)

\* ASTOutputFrame.get_current_cursor, for the focus item `iid`
get_current_cursor(map, iid) == IF iid # NoIID THEN map[iid] ELSE None

\* ASTOutputFrame.get_current_iids, for the focus item `iid`; the None it
\* returns without a cursor is <<>>
get_current_iids(map, cmap, iid) ==
    LET cursor == get_current_cursor(map, iid)
    IN  IF cursor # None THEN cmap[cursor] ELSE <<>>

----------------------------------------------------------------------------
\* ASTOutputFrame.search

\* str.lower on the letters the spellings use
LowerChar(c) == CASE c = "F" -> "f" [] c = "O" -> "o" [] c = "T" -> "t" [] OTHER -> c
lower(s) == [i \in DOMAIN s |-> LowerChar(s[i])]

\* re.compile(pattern) succeeds; the patterns are made of letters, which
\* stand for themselves, and "(", which opens a group nothing closes
re_compile_ok(pattern) == ~Contains(pattern, "(")

\* reObj.match(s) for a pattern of letters: the pattern matches at the start
\* of s; re.IGNORECASE compares without case
re_match(pattern, ignoreCase, s) ==
    /\ Len(pattern) <= Len(s)
    /\ IF ignoreCase
       THEN lower(SubSeq(s, 1, Len(pattern))) = lower(pattern)
       ELSE SubSeq(s, 1, Len(pattern)) = pattern

\* The text of IID n as the Treeview formats it ("I%03X"), without the "I":
\* the hexadecimal digits of n, at least three
RECURSIVE HexDigits(_)
HexDigits(n) == IF n < 16 THEN <<n>> ELSE Append(HexDigits(n \div 16), n % 16)
IIDText(n) ==
    LET d == HexDigits(n)
    IN  IF Len(d) >= 3 THEN d ELSE [i \in 1..(3 - Len(d)) |-> 0] \o d

\* s < t for two texts, as str compares them
RECURSIVE TextLess(_, _)
TextLess(s, t) ==
    IF t = <<>> THEN FALSE
    ELSE IF s = <<>> THEN TRUE
    ELSE IF Head(s) # Head(t) THEN Head(s) < Head(t)
    ELSE TextLess(Tail(s), Tail(t))

\* result.sort() on a list of distinct IIDs, given as their set
RECURSIVE SortIIDs(_)
SortIIDs(S) ==
    IF S = {} THEN <<>>
    ELSE LET first == CHOOSE x \in S : \A y \in S \ {x} : TextLess(IIDText(x), IIDText(y))
         IN  <<first>> \o SortIIDs(S \ {first})

\* the test of the search loop for one cursor
search_found(tu, cursor, data) ==
    LET kindOk == data.use_CursorKind => (data.CursorKind = TranslationUnits[tu].kind[cursor])
        text == TranslationUnits[tu].spelling[cursor]
    IN  /\ kindOk
        /\ IF data.use_RexEx
           THEN re_match(data.spelling, data.caseInsensitive, text)
           ELSE IF data.caseInsensitive
                THEN lower(data.spelling) = lower(text)
                ELSE data.spelling = text

\* a search that takes one item for every cursor it finds
search_one_per_cursor(map, tu, data) ==
    IF data.use_RexEx /\ ~re_compile_ok(data.spelling)
    THEN [showerror |-> "Search RegEx", result |-> <<>>]
    ELSE [showerror |-> "none",
          result |-> SortIIDs({iid \in DOMAIN map :
                                 /\ search_found(tu, map[iid], data)
                                 /\ \A other \in DOMAIN map :
                                       map[other] = map[iid] => ~TextLess(IIDText(other), IIDText(iid))})]

\* ASTOutputFrame.search(**data): the message box it shows ("none" if it
\* shows none) and the list it returns
search(map, tu, data) ==
    IF data.use_RexEx /\ ~re_compile_ok(data.spelling)
    THEN [showerror |-> "Search RegEx", result |-> <<>>]
    ELSE [showerror |-> "none",
          result |-> SortIIDs({iid \in DOMAIN map : search_found(tu, map[iid], data)})]

\* the data of the SearchDialog the user confirms: a spelling compared
\* exactly, without case, or as a regular expression (one of them invalid),
\* with or without the kind
SearchData ==
    { [use_CursorKind |-> k, CursorKind |-> "VAR_DECL", spelling |-> q[1],
       caseInsensitive |-> q[2], use_RexEx |-> q[3]] :
         k \in BOOLEAN,
         q \in { <<<<"f">>, FALSE, FALSE>>, <<<<"f">>, TRUE, FALSE>>,
                 <<<<"f">>, TRUE, TRUE>>, <<<<>>, FALSE, TRUE>>,
                 <<<<"(">>, FALSE, TRUE>> } }

----------------------------------------------------------------------------
\* The values CursorOutputFrame shows: what getattr gives for an attribute
\* of a cursor or of another clang object.
\*   str    a value toStr turns into n lines of text
\*   cursor a clang.cindex.Cursor, shown as a link (ref names it)
\*   obj    a Type, SourceRange or Token, shown with its own attributes
\*          (ref names it)
\*   iter   a value with __iter__ that is no str, with the values it yields
\*   method an instance method with n parameters besides self that returns
\*          items[1] when called
\*   func   a value of class 'function'
\*   raise  no value: getattr, or the call of the method, raises
\*   bytes  a bytes value (a str of Python 2) with a character that is not
\*          ASCII: toStr raises UnicodeDecodeError for it
\* inspect.getargspec is there (Python before 3.11).

Value(t, n, ref, items) == [t |-> t, n |-> n, ref |-> ref, items |-> items]
StrValue(n) == Value("str", n, "", <<>>)
CursorValue(c) == Value("cursor", 1, c, <<>>)
ObjValue(o) == Value("obj", 1, o, <<>>)
IterValue(items) == Value("iter", 1, "", items)
MethodValue(n, result) == Value("method", n, "", <<result>>)
FuncValue == Value("func", 1, "", <<>>)
RaiseValue == Value("raise", 1, "", <<>>)
BadBytesValue == Value("bytes", 1, "", <<>>)

\* attribute names
N_tu == <<"_", "t", "u">>
N_kind == <<"k", "i", "n", "d">>
N_type == <<"t", "y", "p", "e">>
N_from_param == <<"f", "r", "o", "m", "_", "p", "a", "r", "a", "m">>
N_get_arguments == <<"g", "e", "t", "_", "a", "r", "g", "u", "m", "e", "n", "t", "s">>
N_get_canonical == <<"g", "e", "t", "_", "c", "a", "n", "o", "n", "i", "c", "a", "l">>
N_get_children == <<"g", "e", "t", "_", "c", "h", "i", "l", "d", "r", "e", "n">>
N_get_usr == <<"g", "e", "t", "_", "u", "s", "r">>
N_lexical_parent == <<"l", "e", "x", "i", "c", "a", "l", "_", "p", "a", "r", "e", "n", "t">>
N_location == <<"l", "o", "c", "a", "t", "i", "o", "n">>
N_argument_types == <<"a", "r", "g", "u", "m", "e", "n", "t", "_", "t", "y", "p", "e", "s">>
N_get_pointee == <<"g", "e", "t", "_", "p", "o", "i", "n", "t", "e", "e">>
N_get_tokens == <<"g", "e", "t", "_", "t", "o", "k", "e", "n", "s">>
N_linkage == <<"l", "i", "n", "k", "a", "g", "e">>
N_raw_comment == <<"r", "a", "w", "_", "c", "o", "m", "m", "e", "n", "t">>
N_spelling == <<"s", "p", "e", "l", "l", "i", "n", "g">>

Attr(name, v) == [name |-> name, v |-> v]

\* dir(obj) with getattr(obj, name) for the cursors of the translation units
\* and the objects their attributes lead to.  All cursors have the same
\* attributes; the values differ: "c" is a function with one argument
\* whose type's canonical type is that type itself, "d" a declaration whose
\* usr cannot be read and whose lexical parent is "c", "v" a variable
\* declared at the top of the file.
Attrs ==
    [ r |-> << Attr(N_tu, StrValue(1)), Attr(N_from_param, FuncValue),
               Attr(N_get_arguments, MethodValue(0, IterValue(<<>>))),
               Attr(N_kind, StrValue(1)) >>,
      a |-> << Attr(N_tu, StrValue(1)), Attr(N_from_param, FuncValue),
               Attr(N_get_arguments, MethodValue(0, IterValue(<<>>))),
               Attr(N_kind, StrValue(1)) >>,
      b |-> << Attr(N_tu, StrValue(1)), Attr(N_from_param, FuncValue),
               Attr(N_get_arguments, MethodValue(0, IterValue(<<>>))),
               Attr(N_kind, StrValue(1)) >>,
      c |-> << Attr(N_tu, StrValue(1)), Attr(N_from_param, FuncValue),
               Attr(N_get_arguments, MethodValue(0, IterValue(<<CursorValue("d")>>))),
               Attr(N_kind, StrValue(1)),
               Attr(N_type, ObjValue("T")) >>,
      d |-> << Attr(N_tu, StrValue(1)), Attr(N_from_param, FuncValue),
               Attr(N_get_arguments, MethodValue(0, IterValue(<<>>))),
               Attr(N_get_usr, MethodValue(0, RaiseValue)),
               Attr(N_lexical_parent, CursorValue("c")),
               Attr(N_location, StrValue(4)) >>,
      v |-> << Attr(N_tu, StrValue(1)), Attr(N_from_param, FuncValue),
               Attr(N_get_arguments, MethodValue(0, IterValue(<<>>))),
               Attr(N_kind, StrValue(1)),
               Attr(N_lexical_parent, CursorValue("r")),
               Attr(N_type, ObjValue("T")) >>,
      T |-> << Attr(N_get_canonical, MethodValue(0, ObjValue("T"))),
               Attr(N_kind, StrValue(1)) >>,
      \* "p" is a pointer to a pointer ... to a function: its type T1 and the
      \* types T2 .. T7 the pointers point to, T7 the type of the function
      \* with one parameter
      p |-> << Attr(N_tu, StrValue(1)), Attr(N_from_param, FuncValue),
               Attr(N_get_arguments, MethodValue(0, IterValue(<<>>))),
               Attr(N_kind, StrValue(1)),
               Attr(N_type, ObjValue("T1")) >>,
      T1 |-> << Attr(N_get_pointee, MethodValue(0, ObjValue("T2"))), Attr(N_kind, StrValue(1)) >>,
      T2 |-> << Attr(N_get_pointee, MethodValue(0, ObjValue("T3"))), Attr(N_kind, StrValue(1)) >>,
      T3 |-> << Attr(N_get_pointee, MethodValue(0, ObjValue("T4"))), Attr(N_kind, StrValue(1)) >>,
      T4 |-> << Attr(N_get_pointee, MethodValue(0, ObjValue("T5"))), Attr(N_kind, StrValue(1)) >>,
      T5 |-> << Attr(N_get_pointee, MethodValue(0, ObjValue("T6"))), Attr(N_kind, StrValue(1)) >>,
      T6 |-> << Attr(N_get_pointee, MethodValue(0, ObjValue("T7"))), Attr(N_kind, StrValue(1)) >>,
      T7 |-> << Attr(N_argument_types, MethodValue(0, IterValue(<<ObjValue("T")>>))),
                Attr(N_kind, StrValue(1)) >>,
      \* "f" and "g" are functions with a body of tokens (K, alike in their
      \* attributes): two more than and exactly as many as are shown
      f |-> << Attr(N_tu, StrValue(1)), Attr(N_from_param, FuncValue),
               Attr(N_get_tokens, MethodValue(0, IterValue([i \in 1..(MAX_ITER_OUT + 2) |-> ObjValue("K")]))),
               Attr(N_kind, StrValue(1)) >>,
      g |-> << Attr(N_tu, StrValue(1)), Attr(N_from_param, FuncValue),
               Attr(N_get_tokens, MethodValue(0, IterValue([i \in 1..MAX_ITER_OUT |-> ObjValue("K")]))),
               Attr(N_kind, StrValue(1)) >>,
      K |-> << Attr(N_kind, StrValue(1)), Attr(N_spelling, StrValue(1)) >>,
      \* "e" is a variable with a comment that has a character that is not
      \* ASCII; its usr and its linkage cannot be read
      e |-> << Attr(N_tu, StrValue(1)), Attr(N_from_param, FuncValue),
               Attr(N_get_usr, MethodValue(0, RaiseValue)),
               Attr(N_kind, StrValue(1)),
               Attr(N_linkage, RaiseValue),
               Attr(N_raw_comment, BadBytesValue),
               Attr(N_type, ObjValue("T")) >> ]

----------------------------------------------------------------------------
\* FoldSectionTree and FoldSection.  A section is named by its place in the
\* tree: the child numbers from the root down (the root is <<>>), which is
\* what `parent` and the index in `members` say; find_section's and
\* get_marker's None is <<>>, the root being no result of either.  members
\* is the length of the list, -1 for None.

\* FoldSection.__init__(show, deep)
FoldSection(show, deep) ==
    [startLine |-> 0, show |-> show, members |-> -1, childNr |-> -1, deep |-> deep]

\* FoldSectionTree.__init__: the root
FoldSectionTree == (<<>> :> FoldSection(TRUE, -1))

\* get_child starting the list of members anew when it has to add to it
get_child_fresh_list(fold, showDefault, path, num) ==
    LET have == IF fold[path].members = -1 THEN 0 ELSE fold[path].members
        made == IF have > num THEN {} ELSE {Append(path, k) : k \in 0..num}
        gone == IF have > num THEN {}
                ELSE {p \in DOMAIN fold : Len(p) > Len(path) /\ SubSeq(p, 1, Len(path)) = path}
    IN  [p \in (DOMAIN fold \ gone) \cup made |->
           IF p \in made
           THEN [FoldSection(showDefault, fold[path].deep + 1) EXCEPT !.childNr = num]
           ELSE IF p = path THEN [fold[p] EXCEPT !.members = Max(have, num + 1)]
           ELSE fold[p]]

\* get_child creating sections as FoldSection(False, ...) whatever the default
get_child_collapsed(fold, showDefault, path, num) ==
    LET have == IF fold[path].members = -1 THEN 0 ELSE fold[path].members
        made == {Append(path, k) : k \in have..num}
        newFS == [FoldSection(FALSE, fold[path].deep + 1) EXCEPT !.childNr = num]
    IN  IF made = {} THEN fold
        ELSE [p \in made |-> newFS] @@ [fold EXCEPT ![path].members = num + 1]

\* FoldSection.get_child(num) on the section at `path`: the tree with the
\* sections it creates (show_default is showDefault); the child is
\* Append(path, num)
get_child(fold, showDefault, path, num) ==
    LET have == IF fold[path].members = -1 THEN 0 ELSE fold[path].members
        made == {Append(path, k) : k \in have..num}
        newFS == [FoldSection(showDefault, fold[path].deep + 1) EXCEPT !.childNr = num]
    IN  IF made = {} THEN fold
        ELSE [p \in made |-> newFS] @@ [fold EXCEPT ![path].members = num + 1]

\* set_show that sets show of the sections below the section as well
set_show_below(fold, path, show) ==
    [p \in DOMAIN fold |->
       IF Len(p) >= Len(path) /\ SubSeq(p, 1, Len(path)) = path
       THEN [fold[p] EXCEPT !.show = show] ELSE fold[p]]

\* FoldSection.set_line / set_show
set_line(fold, path, startLine) == [fold EXCEPT ![path].startLine = startLine]
set_show(fold, path, show) == [fold EXCEPT ![path].show = show]

\* clear_lines that stops at the sections of the cursor's own attributes
clear_lines_children_only(fold) ==
    [p \in DOMAIN fold |-> IF Len(p) <= 1 THEN [fold[p] EXCEPT !.startLine = 0] ELSE fold[p]]

\* FoldSectionTree.clear_lines: FoldSection.clear_lines from the root
clear_lines(fold) == [p \in DOMAIN fold |-> [fold[p] EXCEPT !.startLine = 0]]

\* set_all_show that passes by the sections that have no start line
set_all_show_active_only(fold, show) ==
    [p \in DOMAIN fold |->
       IF p = <<>> \/ fold[p].startLine > 0 THEN [fold[p] EXCEPT !.show = show] ELSE fold[p]]

\* FoldSectionTree.set_all_show: FoldSection.set_all_show from the root
\* (show_default is set by the caller)
set_all_show(fold, show) == [p \in DOMAIN fold |-> [fold[p] EXCEPT !.show = show]]

\* FoldSectionTree._find_section(startLine, members of the section at path),
\* the loop from member k on with lastSec
RECURSIVE find_section_from(_, _, _, _, _)
find_section_from(fold, startLine, path, k, lastSec) ==
    LET sec == Append(path, k)
        stop == \/ k >= fold[path].members
                \/ fold[sec].startLine = 0
                \/ fold[sec].startLine > startLine
    IN  IF fold[path].members <= 0 THEN <<>>
        ELSE IF ~stop /\ fold[sec].startLine = startLine THEN sec
        ELSE IF ~stop THEN find_section_from(fold, startLine, path, k + 1, sec)
        ELSE IF lastSec # <<>> THEN find_section_from(fold, startLine, lastSec, 0, <<>>)
        ELSE <<>>

\* FoldSectionTree.find_section(startLine)
find_section(fold, startLine) == find_section_from(fold, startLine, <<>>, 0, <<>>)

----------------------------------------------------------------------------
\* CursorOutputFrame: the Text widget and the output of a cursor.
\*
\* cursorText is the text line by line.  A line is
\*   type    "header" (the first line of an attribute: '[-] name (type):'),
\*           "data" (a line of a value), "link" (a cursor), "open" / "close"
\*           ('[' and ']' of an iterable), "more" ('and some more...'),
\*           "deep" ('To deep to show ...'), "shown" ('... already shown!')
\*   deep    the n of its tag section_header_n (a header), else the number
\*           of tabs before it
\*   glyph   the character between the brackets of a header
\*   name    the attribute name written on a header
\*   tag     of a header: the tags of the name ("attr_name", "marked",
\*           "none") ; of another line: the tag of its text
\*   typeTag the tag of the type written on a header (attr_type, attr_err)
\*   section, hidden: the n of the tags section_n and section_hidden_n on it
\*   link    the cursor of a link
\*   node    the FoldSection a header was written for; the widget does not
\*           keep it and no handler reads it
\* A range of a tag is a longest run of lines that have it: the ranges the
\* code gives a tag start and end at line starts and never touch.

Line(type, deep, name, tag, typeTag, link, node) ==
    [type |-> type, deep |-> deep, glyph |-> IF type = "header" THEN "-" ELSE "",
     name |-> name, tag |-> tag, typeTag |-> typeTag, section |-> {}, hidden |-> {},
     link |-> link, node |-> node]

\* str(n) for n >= 0
RECURSIVE str(_)
str(n) ==
    LET digit == <<"0", "1", "2", "3", "4", "5", "6", "7", "8", "9">>[(n % 10) + 1]
    IN  IF n < 10 THEN <<digit>> ELSE Append(str(n \div 10), digit)

\* is_obj_in_stack that finds nothing
is_obj_in_stack_never(obj, objStack) == FALSE

\* is_obj_in_stack(obj, objStack)
is_obj_in_stack(obj, objStack) ==
    \E i \in 1..Len(objStack) : objStack[i].t = obj.t /\ objStack[i] = obj

\* Text.tag_add / tag_remove of tag section_n or section_hidden_n
\* (field "section" or "hidden") on the lines from..to
tag_add(text, field, n, from, to) ==
    [i \in 1..Len(text) |->
       IF from <= i /\ i <= to
       THEN IF field = "section" THEN [text[i] EXCEPT !.section = @ \cup {n}]
                                 ELSE [text[i] EXCEPT !.hidden = @ \cup {n}]
       ELSE text[i]]
tag_remove(text, field, n, from, to) ==
    [i \in 1..Len(text) |->
       IF from <= i /\ i <= to
       THEN IF field = "section" THEN [text[i] EXCEPT !.section = @ \ {n}]
                                 ELSE [text[i] EXCEPT !.hidden = @ \ {n}]
       ELSE text[i]]

\* line i of the text has tag section_n (field "section") or
\* section_hidden_n (field "hidden")
HasTag(text, field, n, i) ==
    IF field = "section" THEN n \in text[i].section ELSE n \in text[i].hidden

\* the lines where a range of the tag starts
range_starts(text, field, n) ==
    {i \in 1..Len(text) : HasTag(text, field, n, i) /\ (i = 1 \/ ~HasTag(text, field, n, i - 1))}

\* the last line of the range of the tag that starts in line first
range_end(text, field, n, first) ==
    LET ends == {i \in first..Len(text) :
                    HasTag(text, field, n, i) /\ (i = Len(text) \/ ~HasTag(text, field, n, i + 1))}
    IN  CHOOSE i \in ends : \A j \in ends : i <= j

\* Text.tag_nextrange(tag, index) for an index in line `line` behind its
\* start: <<first, last>> line of the first range that starts behind that
\* line, <<>> if there is none
tag_nextrange(text, field, n, line) ==
    LET starts == {i \in range_starts(text, field, n) : i > line}
        first == CHOOSE i \in starts : \A j \in starts : i <= j
    IN  IF starts = {} THEN <<>> ELSE <<first, range_end(text, field, n, first)>>

\* the ranges of Text.tag_ranges(tag) as <<first, last>> lines
tag_ranges(text, field, n) ==
    {<<first, range_end(text, field, n, first)>> : first \in range_starts(text, field, n)}

\* Text.tag_prevrange('section_header_n', index) for the start of line
\* `line` (or 'end'): the last header of deep n before it, 0 if there is none
header_prevrange(text, n, line) ==
    LET header(i) == i <= Len(text) /\ text[i].type = "header" /\ text[i].deep = n
        back == CHOOSE k \in 1..(line - 1) :
                    header(line - k) /\ \A j \in 1..(k - 1) : ~header(line - j)
    IN  IF \E i \in 1..(line - 1) : header(i) THEN line - back ELSE 0

\* the delete and insert that put glyph g between the brackets of header i
set_glyph(text, i, g) == [text EXCEPT ![i].glyph = g]

\* The output functions build on t: the text (text), the links (cursorList),
\* the fold tree (fold); marker is FoldSectionTree.get_marker() and
\* showDefault is FoldSection.show_default, which they read.  err is the
\* exception that is on its way up ("none" if none is): every function
\* returns at once with what is written so far.
RECURSIVE add_obj_from(_, _, _, _, _)
RECURSIVE add_attr(_, _, _, _, _, _)
RECURSIVE add_iter_from(_, _, _, _, _)
RECURSIVE add_attr_data(_, _, _, _, _, _)

\* CursorOutputFrame._add_cursor(cursor) for a Cursor
add_cursor(t, deep, d) ==
    [t EXCEPT !.text = Append(@, Line("link", deep, <<>>, "link", "none", d.ref, <<>>)),
              !.cursorList = Append(@, d.ref)]

\* CursorOutputFrame._add_attr_data
add_attr_data(t, objStack, foldNode, attrData, attrDataTag, isIterData) ==
    LET deep == Len(objStack) - 1
        cmpStack == IF isIterData THEN SubSeq(objStack, 1, Len(objStack) - 1) ELSE objStack
        special(type) == [t EXCEPT !.text = Append(@, Line(type, deep, <<>>, "special", "none", None, <<>>))]
        lines == [i \in 1..attrData.n |-> Line("data", deep, <<>>, attrDataTag, "none", None, <<>>)]
    IN  IF attrData.t = "cursor" THEN add_cursor(t, deep, attrData)
        ELSE IF attrData.t = "obj"
        THEN IF ~is_obj_in_stack(attrData, cmpStack)
             THEN IF deep + 1 < MAX_DEEP
                  THEN add_obj_from(t, Append(objStack, attrData), foldNode, 1, 0)
                  ELSE special("deep")
             ELSE special("shown")
        ELSE IF attrData.t = "bytes" THEN [t EXCEPT !.err = "UnicodeDecodeError"]
        ELSE [t EXCEPT !.text = @ \o lines]

\* the loop with `cnt <= _MAX_ITER_OUT` as its test
add_iter_from_one_more(t, objStack, foldNode, items, num) ==
    IF t.err # "none" \/ num >= Len(items) THEN t
    ELSE IF num <= MAX_ITER_OUT
    THEN LET t1 == [t EXCEPT !.fold = get_child(@, t.showDefault, foldNode, num)]
             t2 == add_attr(t1, Append(objStack, items[num + 1]), str(num),
                            Append(foldNode, num), num, RaiseValue).t
         IN  add_iter_from(t2, objStack, foldNode, items, num + 1)
    ELSE [t EXCEPT !.text = Append(@, Line("more", Len(objStack) - 1, <<>>, "special", "none", None, <<>>))]

\* the loop of _add_attr over an iterable's values, from the one numbered num on
add_iter_from(t, objStack, foldNode, items, num) ==
    IF t.err # "none" \/ num >= Len(items) THEN t
    ELSE IF num < MAX_ITER_OUT
    THEN LET t1 == [t EXCEPT !.fold = get_child(@, t.showDefault, foldNode, num)]
             t2 == add_attr(t1, Append(objStack, items[num + 1]), str(num),
                            Append(foldNode, num), num, RaiseValue).t
         IN  add_iter_from(t2, objStack, foldNode, items, num + 1)
    ELSE [t EXCEPT !.text = Append(@, Line("more", Len(objStack) - 1, <<>>, "special", "none", None, <<>>))]

\* CursorOutputFrame._add_attr(objStack, attrName, foldNode, index); got is
\* what getattr(obj, attrName) gives.  res is the value it returns.
add_attr(t, objStack, attrName, foldNode, index, got) ==
    LET obj == objStack[Len(objStack)]
        deep == Len(objStack) - 1
        isIterData == index >= 0
        \* the attribute's value, the calls of it done
        attrData0 == IF isIterData THEN obj
                     ELSE IF got.t = "raise" THEN StrValue(1)
                     ELSE got
        called == attrData0.t = "method" /\ attrData0.n = 0
        attrData == IF ~called THEN (IF attrData0.t = "method" THEN StrValue(1) ELSE attrData0)
                    ELSE IF attrData0.items[1].t = "raise" THEN StrValue(1)
                    ELSE IF attrName = N_get_children THEN StrValue(1)
                    ELSE attrData0.items[1]
        attrDataTag == IF called /\ attrData0.items[1].t = "raise" THEN "attr_err"
                       ELSE IF called /\ attrName = N_get_children THEN "special"
                       ELSE "none"
        attrTypeTag == IF ~isIterData /\ got.t = "raise" THEN "attr_err" ELSE "attr_type"
        \* the first line
        curLine == Len(t.text) + 1
        attTags == IF isIterData THEN "none"
                   ELSE IF t.marker = foldNode THEN "marked" ELSE "attr_name"
        t1 == [t EXCEPT !.fold = set_line(@, foldNode, curLine),
                        !.text = Append(@, Line("header", deep, attrName, attTags, attrTypeTag,
                                                None, foldNode))]
        startIdx == curLine + 1
        \* the value
        bracket(type) == Line(type, deep, <<>>, "none", "none", None, <<>>)
        close(tt) == IF tt.err # "none" THEN tt
                     ELSE [tt EXCEPT !.text = Append(@, bracket("close"))]
        t2 == IF attrData.t = "iter"
              THEN LET t21 == [t1 EXCEPT !.text = Append(@, bracket("open"))]
                   IN  close(add_iter_from(t21, objStack, foldNode, attrData.items, 0))
              ELSE add_attr_data(t1, objStack, foldNode, attrData, attrDataTag, isIterData)
        \* the tags of the section
        tags(tt) ==
            LET last == Len(tt.text)
                t3 == [tt EXCEPT !.text = tag_add(@, "section", deep, startIdx, last)]
                cur_header == header_prevrange(t3.text, deep, last + 1)
            IN  IF tt.err # "none" THEN tt
                ELSE IF ~t3.fold[foldNode].show
                THEN [t3 EXCEPT !.text = tag_add(set_glyph(@, cur_header, "+"),
                                                 "hidden", deep, startIdx, last)]
                ELSE t3
    IN  IF ~isIterData /\ got.t = "func"
        THEN [t |-> t, res |-> FALSE]
        ELSE [t |-> tags(t2), res |-> TRUE]

\* the loop writing the private attributes as well
add_obj_from_private_too(t, objStack, foldNode, i, attIdx) ==
    LET attrs == Attrs[objStack[Len(objStack)].ref]
        attr == attrs[i]
        t1 == [t EXCEPT !.fold = get_child(@, t.showDefault, foldNode, attIdx)]
        r == add_attr(t1, objStack, attr.name, Append(foldNode, attIdx), -1, attr.v)
    IN  IF t.err # "none" \/ i > Len(attrs) THEN t
        ELSE add_obj_from(r.t, objStack, foldNode, i + 1, IF r.res THEN attIdx + 1 ELSE attIdx)

\* the loop counting the attributes it passes by as well
add_obj_from_counts_skipped(t, objStack, foldNode, i, attIdx) ==
    LET attrs == Attrs[objStack[Len(objStack)].ref]
        attr == attrs[i]
        t1 == [t EXCEPT !.fold = get_child(@, t.showDefault, foldNode, attIdx)]
        r == add_attr(t1, objStack, attr.name, Append(foldNode, attIdx), -1, attr.v)
    IN  IF t.err # "none" \/ i > Len(attrs) THEN t
        ELSE IF attr.name[1] = "_" THEN add_obj_from(t, objStack, foldNode, i + 1, attIdx)
        ELSE add_obj_from(r.t, objStack, foldNode, i + 1, attIdx + 1)

\* CursorOutputFrame._add_obj(objStack, foldNode): the loop over dir(obj)
\* from the i-th name on, with attIdx
add_obj_from(t, objStack, foldNode, i, attIdx) ==
    LET attrs == Attrs[objStack[Len(objStack)].ref]
        attr == attrs[i]
        t1 == [t EXCEPT !.fold = get_child(@, t.showDefault, foldNode, attIdx)]
        r == add_attr(t1, objStack, attr.name, Append(foldNode, attIdx), -1, attr.v)
    IN  IF t.err # "none" \/ i > Len(attrs) THEN t
        ELSE IF attr.name[1] = "_" THEN add_obj_from(t, objStack, foldNode, i + 1, attIdx)
        ELSE add_obj_from(r.t, objStack, foldNode, i + 1, IF r.res THEN attIdx + 1 ELSE attIdx)

\* CursorOutputFrame._add_obj(objStack, foldNode)
add_obj(t, objStack, foldNode) == add_obj_from(t, objStack, foldNode, 1, 0)

----------------------------------------------------------------------------
\* OutputFrame: history

\* _add_history without the slice that erases the old future
add_history_keeps_future(h, pos, iid) ==
    LET tooLong == Len(h) >= MAX_HISTORY
        h2 == IF tooLong THEN Tail(h) ELSE h
    IN  [history |-> Append(h2, iid),
         historyPos |-> IF tooLong THEN pos ELSE pos + 1]

\* _add_history without the test for a too long history
add_history_unbounded(h, pos, iid) ==
    LET h1 == IF pos < Len(h) THEN SubSeq(h, 1, pos + 1) ELSE h
    IN  [history |-> Append(h1, iid), historyPos |-> pos + 1]

\* OutputFrame._add_history(iid): the new history and historyPos
add_history(h, pos, iid) ==
    LET h1 == IF pos < Len(h) THEN SubSeq(h, 1, pos + 1) ELSE h
        tooLong == Len(h1) >= MAX_HISTORY
        h2 == IF tooLong THEN Tail(h1) ELSE h1
    IN  [history |-> Append(h2, iid),
         historyPos |-> IF tooLong THEN pos ELSE pos + 1]

\* OutputFrame._update_history_buttons: the states of the two buttons
update_history_buttons(h, pos) ==
    [backward |-> IF pos > 0 THEN "normal" ELSE "disabled",
     forward  |-> IF Len(h) > 1 /\ pos + 1 < Len(h) THEN "normal" ELSE "disabled"]

\* the test of go_history_backward
can_go_backward(h, pos) == pos > 0

\* go_history_forward's test off by one: the last entry is out of reach
can_go_forward_short(h, pos) == pos + 2 < Len(h)

\* the test of go_history_forward
can_go_forward(h, pos) == pos + 1 < Len(h)

\* _update_history reading the history at the position before the step
update_history_stale(h, pos) == IF pos + 1 < Len(h) THEN Item(h, pos + 1) ELSE Item(h, pos - 1)

\* OutputFrame._update_history: the IID it makes current
update_history(h, pos) == Item(h, pos)

----------------------------------------------------------------------------
\* OutputFrame: doubles and search

\* OutputFrame._update_doubles / _clear_doubles: the state of the buttons
update_doubles(iids) == IF IsList(iids) THEN "normal" ELSE "disabled"

\* the doubles steps stopping at the ends of the list instead of wrapping round
go_doubles_no_wrap(iids, cur, step) ==
    LET newIdx == IndexOf(iids, cur) + step
    IN  IF newIdx < 0 THEN Item(iids, 0)
        ELSE IF newIdx >= Len(iids) THEN Item(iids, Len(iids) - 1)
        ELSE Item(iids, newIdx)

\* go_doubles_backward / go_doubles_forward: the IID to select (step is -1 or 1)
go_doubles(iids, cur, step) == Item(iids, (IndexOf(iids, cur) + step) % Len(iids))

\* _update_search leaving the search buttons enabled on an empty result
update_search_buttons_on(cur, result, pos) ==
    IF Len(result) > 0
    THEN LET serchIID == Item(result, pos)
         IN  [searchPos |-> IF cur # serchIID /\ Contains(result, cur)
                            THEN IndexOf(result, cur)
                            ELSE pos,
              searchBtns |-> "normal"]
    ELSE [searchPos |-> pos, searchBtns |-> "normal"]

\* _update_search without the move of searchPos to the current item
update_search_no_sync(cur, result, pos) ==
    [searchPos |-> pos,
     searchBtns |-> IF Len(result) > 0 THEN "normal" ELSE "disabled"]

\* OutputFrame._update_search: the new searchPos and the state of the buttons
update_search(cur, result, pos) ==
    IF Len(result) > 0
    THEN LET serchIID == Item(result, pos)
         IN  [searchPos |-> IF cur # serchIID /\ Contains(result, cur)
                            THEN IndexOf(result, cur)
                            ELSE pos,
              searchBtns |-> "normal"]
    ELSE [searchPos |-> pos, searchBtns |-> "disabled"]

\* the search steps stopping at the ends instead of wrapping round
\* the step without the modulo
go_search_no_modulo(result, pos, step) == pos + step

go_search_no_wrap(result, pos, step) ==
    IF pos + step < 0 THEN 0
    ELSE IF pos + step >= Len(result) THEN Len(result) - 1
    ELSE pos + step

\* go_search_backward / go_search_forward: the new searchPos (step is -1 or 1)
go_search(result, pos, step) == (pos + step) % Len(result)

\* _on_cursor_selection without its test
selection_always_changed(iid, cur) == TRUE

\* the test of _on_cursor_selection: the selected item is not the current one
selection_changed(iid, cur) == iid # cur

----------------------------------------------------------------------------
\* The Treeview

\* ASTOutputFrame.set_current_iid(iid): focus and selection move to iid and
\* the Treeview queues <<TreeviewSelect>>; whether it also does when iid is
\* selected already depends on the Tk release.
set_current_iid(iid) ==
    /\ focus' = iid
    /\ pendingSelect' \in (IF iid = focus THEN BOOLEAN ELSE {TRUE})

\* the IID of the cursor that was made last
last_iid(cmap, cursor) == cmap[cursor][Len(cmap[cursor])]

\* ASTOutputFrame.set_current_cursor(cursor): the IID it selects
first_iid(cmap, cursor) == cmap[cursor][1]

----------------------------------------------------------------------------
\* The handlers.  Each is the whole handler; the Treeview delivers the
\* <<TreeviewSelect>> a handler queues to on_cursor_selection afterwards.

\* CursorOutputFrame.clear
clear_cursor_output ==
    /\ cursorText' = <<>>
    /\ outCursor' = None
    /\ cursorList' = <<>>

\* CursorOutputFrame.set_cursor(c); error' is the exception it ends with
set_cursor(c) ==
    LET cleared == clear_lines(foldTree)
        t == add_obj([text |-> <<>>, cursorList |-> <<>>, fold |-> cleared,
                      marker |-> foldMarker, showDefault |-> show_default,
                      err |-> "none"],
                     <<CursorValue(c)>>, <<>>)
    IN  /\ IF c = None
           THEN /\ foldTree' = cleared
                /\ clear_cursor_output
                /\ error' = "none"
           ELSE IF outCursor = c
           THEN /\ foldTree' = cleared
                /\ error' = "none"
                /\ UNCHANGED <<cursorText, outCursor, cursorList>>
           ELSE /\ foldTree' = t.fold
                /\ cursorText' = t.text
                /\ cursorList' = t.cursorList
                /\ outCursor' = c
                /\ error' = t.err
        /\ UNCHANGED <<show_default, foldMarker>>

\* OutputFrame._set_active_cursor(cursor)
set_active_cursor(c) ==
    /\ curCursor' = c
    /\ set_cursor(c)
    /\ markerSetBtn' = IF error' = "none" THEN "normal" ELSE markerSetBtn

\* _update_marker leaving every [M#] button enabled
update_marker_all_on(m) == [n \in DOMAIN m |-> "normal"]

\* the [M#] buttons all bound to the last value of the loop variable
set_marker_last(m, num, c) == [m EXCEPT ![MARKER_BTN_CNT - 1] = c]

\* _on_marker_x: self.marker[num] = self.curCursor
set_marker(m, num, c) == [m EXCEPT ![num] = c]

\* OutputFrame._update_marker: the states of the [M#] buttons
update_marker(m) == [n \in DOMAIN m |-> IF m[n] # None THEN "normal" ELSE "disabled"]

\* a clear that leaves the history as it is
clear_keeps_history ==
    /\ curIID' = NoIID
    /\ doublesBtns' = "disabled"
    /\ searchResult' = <<>>
    /\ searchPos' = update_search(NoIID, <<>>, searchPos).searchPos
    /\ searchBtns' = update_search(NoIID, <<>>, searchPos).searchBtns
    /\ marker' = [n \in DOMAIN marker |-> None]
    /\ markerSetBtn' = "disabled"
    /\ markerBtns' = update_marker([n \in DOMAIN marker |-> None])
    /\ clear_cursor_output
    /\ UNCHANGED <<historyVars, curCursor, markerSetState, foldTree, show_default, foldMarker>>

\* OutputFrame.clear: everything but what ASTOutputFrame.clear does
clear ==
    /\ curIID' = NoIID
    /\ history' = <<>>
    /\ historyPos' = -1
    /\ historyBackwardBtn' = update_history_buttons(<<>>, -1).backward
    /\ historyForwardBtn' = update_history_buttons(<<>>, -1).forward
    /\ doublesBtns' = "disabled"
    /\ searchResult' = <<>>
    /\ searchPos' = update_search(NoIID, <<>>, searchPos).searchPos
    /\ searchBtns' = update_search(NoIID, <<>>, searchPos).searchBtns
    /\ marker' = [n \in DOMAIN marker |-> None]
    /\ markerSetBtn' = "disabled"
    /\ markerBtns' = update_marker([n \in DOMAIN marker |-> None])
    /\ clear_cursor_output
    /\ UNCHANGED <<curCursor, markerSetState, foldTree, show_default, foldMarker>>

\* a click on a disabled button runs no handler
Disabled(name) ==
    /\ op' = [name |-> name, branch |-> "disabled"]
    /\ error' = "none"
    /\ UNCHANGED <<astVars, focus, pendingSelect, curIID, curCursor, historyVars,
                   searchVars, doublesBtns, searchBtn, markerVars, foldVars>>

\* Application._on_parse with the translation unit the parser returns:
\* OutputFrame.clear(), then OutputFrame.set_translationunit(tu), which
\* clears again and fills the Treeview.  Deleting the selected item empties
\* focus and selection; whether that queues <<TreeviewSelect>> depends on
\* the Tk release.
on_parse(tu) ==
    /\ LET a == set_translationunit(tu, serial)
       IN  /\ translationunit' = tu
           /\ mapIIDtoCursor' = a.mapIIDtoCursor
           /\ mapCursorToIID' = a.mapCursorToIID
           /\ cnt' = a.cnt
           /\ serial' = a.serial
    /\ focus' = NoIID
    /\ pendingSelect' \in (IF focus # NoIID THEN BOOLEAN ELSE {FALSE})
    /\ clear
    /\ searchBtn' = "normal"
    /\ op' = [name |-> "on_parse", branch |-> "none"]
    /\ error' = "none"

\* The user selects item iid of the Treeview (mouse or keyboard): the
\* widget's own binding moves focus and selection like set_current_iid.
tree_click(iid) ==
    /\ set_current_iid(iid)
    /\ op' = [name |-> "tree_click", branch |-> "none"]
    /\ error' = "none"
    /\ UNCHANGED <<astVars, curIID, curCursor, historyVars, searchVars,
                   doublesBtns, searchBtn, markerVars, foldVars>>

\* The user clicks a link to `cursor` in the shown cursor's output:
\* CursorOutputFrame._on_cursor_click calls ASTOutputFrame.set_current_cursor.
on_cursor_click(cursor) ==
    /\ set_current_iid(first_iid(mapCursorToIID, cursor))
    /\ op' = [name |-> "on_cursor_click", branch |-> "none"]
    /\ error' = "none"
    /\ UNCHANGED <<astVars, curIID, curCursor, historyVars, searchVars,
                   doublesBtns, searchBtn, markerVars, foldVars>>

\* OutputFrame._on_cursor_selection, called by ASTOutputFrame._on_selection
on_cursor_selection ==
    /\ pendingSelect' = FALSE
    /\ LET iid == focus
           cursor == get_current_cursor(mapIIDtoCursor, focus)
           changed == selection_changed(iid, curIID)
           hp == add_history(history, historyPos, iid)
           btn == update_history_buttons(hp.history, hp.historyPos)
           cur == IF changed THEN iid ELSE curIID
           us == update_search(cur, searchResult, searchPos)
       IN  /\ IF changed
              THEN /\ set_active_cursor(cursor)
                   /\ IF error' = "none"
                      THEN /\ history' = hp.history
                           /\ historyPos' = hp.historyPos
                           /\ historyBackwardBtn' = btn.backward
                           /\ historyForwardBtn' = btn.forward
                      ELSE UNCHANGED historyVars
              ELSE /\ error' = "none"
                   /\ UNCHANGED <<curCursor, historyVars, markerSetBtn, foldVars>>
           /\ IF error' = "none"
              THEN /\ curIID' = cur
                   /\ doublesBtns' = update_doubles(get_current_iids(mapIIDtoCursor, mapCursorToIID, focus))
                   /\ searchPos' = us.searchPos
                   /\ searchBtns' = us.searchBtns
              ELSE UNCHANGED <<curIID, doublesBtns, searchPos, searchBtns>>
           /\ op' = [name |-> "on_cursor_selection",
                     branch |-> IF ~changed THEN "same"
                                ELSE IF error' # "none" THEN "raise"
                                ELSE IF historyPos + 1 < Len(history) THEN "truncate"
                                ELSE IF Len(history) >= MAX_HISTORY THEN "evict"
                                ELSE "append"]
    /\ UNCHANGED <<astVars, focus, searchResult, searchBtn, marker, markerSetState,
                   markerBtns>>

\* go_history_backward (step -1) / go_history_forward (step 1), `can` its test
go_history(name, can, step) ==
    /\ IF can
       THEN LET newPos == historyPos + step
                newIID == update_history(history, newPos)
                btn == update_history_buttons(history, newPos)
            IN  /\ historyPos' = newPos
                /\ curIID' = newIID
                /\ set_current_iid(newIID)
                /\ set_active_cursor(get_current_cursor(mapIIDtoCursor, newIID))
                /\ IF error' = "none"
                   THEN /\ historyBackwardBtn' = btn.backward
                        /\ historyForwardBtn' = btn.forward
                   ELSE UNCHANGED <<historyBackwardBtn, historyForwardBtn>>
                /\ op' = [name |-> name, branch |-> IF error' = "none" THEN "moved" ELSE "raise"]
       ELSE /\ historyBackwardBtn' = update_history_buttons(history, historyPos).backward
            /\ historyForwardBtn' = update_history_buttons(history, historyPos).forward
            /\ op' = [name |-> name, branch |-> "end"]
            /\ error' = "none"
            /\ UNCHANGED <<historyPos, curIID, focus, pendingSelect, curCursor,
                           markerSetBtn, foldVars>>
    /\ UNCHANGED <<astVars, history, searchVars, doublesBtns, searchBtn, marker,
                   markerSetState, markerBtns>>

go_history_backward ==
    IF historyBackwardBtn = "disabled"
    THEN Disabled("go_history_backward")
    ELSE go_history("go_history_backward", can_go_backward(history, historyPos), -1)

go_history_forward ==
    IF historyForwardBtn = "disabled"
    THEN Disabled("go_history_forward")
    ELSE go_history("go_history_forward", can_go_forward(history, historyPos), 1)

\* go_doubles_backward (step -1) / go_doubles_forward (step 1)
go_doubles_step(name, step) ==
    IF doublesBtns = "disabled"
    THEN Disabled(name)
    ELSE LET iids == get_current_iids(mapIIDtoCursor, mapCursorToIID, focus)
         IN  /\ IF ~IsList(iids)
                THEN /\ error' = "none"
                     /\ UNCHANGED <<focus, pendingSelect>>
                ELSE IF ~Contains(iids, curIID)
                THEN /\ error' = "ValueError"
                     /\ UNCHANGED <<focus, pendingSelect>>
                ELSE /\ error' = "none"
                     /\ set_current_iid(go_doubles(iids, curIID, step))
             /\ op' = [name |-> name, branch |-> IF IsList(iids) THEN "moved" ELSE "single"]
             /\ UNCHANGED <<astVars, curIID, curCursor, historyVars, searchVars,
                            doublesBtns, searchBtn, markerVars, foldVars>>

\* OutputFrame._on_search; dialog is <<>> when the SearchDialog is
\* cancelled and <<data>> when it is confirmed
on_search(dialog) ==
    /\ IF dialog = <<>>
       THEN /\ op' = [name |-> "on_search", branch |-> "cancel"]
            /\ error' = "none"
            /\ UNCHANGED <<focus, pendingSelect, searchVars>>
       ELSE LET r == search(mapIIDtoCursor, translationunit, dialog[1])
                us == update_search(curIID, r.result, 0)
            IN  /\ searchResult' = r.result
                /\ searchPos' = us.searchPos
                /\ searchBtns' = us.searchBtns
                /\ IF Len(r.result) > 0
                   THEN set_current_iid(Item(r.result, us.searchPos))
                   ELSE UNCHANGED <<focus, pendingSelect>>
                /\ op' = [name |-> "on_search",
                          branch |-> IF r.showerror # "none" THEN "invalid"
                                     ELSE IF Len(r.result) > 0 THEN "found"
                                     ELSE "empty"]
                /\ error' = r.showerror
    /\ UNCHANGED <<astVars, curIID, curCursor, historyVars, doublesBtns, searchBtn,
                   markerVars, foldVars>>

\* go_search_backward (step -1) / go_search_forward (step 1)
go_search_step(name, step) ==
    IF searchBtns = "disabled"
    THEN Disabled(name)
    ELSE /\ IF Len(searchResult) = 0
            THEN /\ error' = "ZeroDivisionError"
                 /\ UNCHANGED <<searchPos, focus, pendingSelect>>
            ELSE /\ error' = "none"
                 /\ searchPos' = go_search(searchResult, searchPos, step)
                 /\ set_current_iid(Item(searchResult, go_search(searchResult, searchPos, step)))
         /\ op' = [name |-> name, branch |-> "moved"]
         /\ UNCHANGED <<astVars, curIID, curCursor, historyVars, searchResult,
                        searchBtns, doublesBtns, searchBtn, markerVars, foldVars>>

\* Application._on_parse when clang cannot load the file: Index.parse raises
\* TranslationUnitLoadError after OutputFrame.clear()
on_parse_error ==
    /\ clear
    /\ translationunit' = None
    /\ mapIIDtoCursor' = EmptyMap
    /\ mapCursorToIID' = EmptyMap
    /\ focus' = NoIID
    /\ pendingSelect' \in (IF focus # NoIID THEN BOOLEAN ELSE {FALSE})
    /\ searchBtn' = "disabled"
    /\ op' = [name |-> "on_parse_error", branch |-> "none"]
    /\ error' = "TranslationUnitLoadError"
    /\ UNCHANGED <<cnt, serial>>

\* [MS] clicked: the Checkbutton flips markerSetState, then _on_marker_set
on_marker_set ==
    IF markerSetBtn = "disabled"
    THEN Disabled("on_marker_set")
    ELSE /\ markerSetState' = 1 - markerSetState
         /\ markerBtns' = IF markerSetState' = 1
                          THEN [n \in DOMAIN marker |-> "normal"]
                          ELSE update_marker(marker)
         /\ op' = [name |-> "on_marker_set", branch |-> IF markerSetState' = 1 THEN "on" ELSE "off"]
         /\ error' = "none"
         /\ UNCHANGED <<astVars, focus, pendingSelect, curIID, curCursor, historyVars,
                        searchVars, doublesBtns, searchBtn, marker, markerSetBtn, foldVars>>

\* the command of button [M num+1]
MarkerCommand(num) ==
    <<"on_marker_x(0)", "on_marker_x(1)", "on_marker_x(2)", "on_marker_x(3)",
      "on_marker_x(4)">>[num + 1]

\* [M#] clicked: OutputFrame._on_marker_x(num)
on_marker_x(num) ==
    IF markerBtns[num] = "disabled"
    THEN Disabled(MarkerCommand(num))
    ELSE /\ IF markerSetState = 1
            THEN /\ markerSetState' = 0
                 /\ marker' = set_marker(marker, num, curCursor)
                 /\ markerBtns' = update_marker(marker')
                 /\ op' = [name |-> MarkerCommand(num), branch |-> "set"]
                 /\ error' = "none"
                 /\ UNCHANGED <<focus, pendingSelect>>
            ELSE /\ IF marker[num] = None
                    THEN /\ error' = "AttributeError"
                         /\ UNCHANGED <<focus, pendingSelect>>
                    ELSE IF marker[num] \notin DOMAIN mapCursorToIID
                    THEN /\ error' = "KeyError"
                         /\ UNCHANGED <<focus, pendingSelect>>
                    ELSE /\ error' = "none"
                         /\ set_current_iid(first_iid(mapCursorToIID, marker[num]))
                 /\ op' = [name |-> MarkerCommand(num), branch |-> "goto"]
                 /\ UNCHANGED <<marker, markerSetState, markerBtns>>
         /\ UNCHANGED <<astVars, curIID, curCursor, historyVars, searchVars, doublesBtns,
                        searchBtn, markerSetBtn, foldVars>>

\* the header lines of the text the user sees: no line of a hidden section
\* is shown
VisibleHeaders ==
    {i \in 1..Len(cursorText) :
        cursorText[i].type = "header" /\ cursorText[i].hidden \cap 0..(MAX_DEEP - 1) = {}}

\* CursorOutputFrame._on_section_click for a click on the [+] or [-] of the
\* header in line curLine
on_section_click(curLine) ==
    LET curSec == find_section(foldTree, curLine)
        curLev == foldTree[curSec].deep
        next_section == tag_nextrange(cursorText, "section", curLev, curLine)
        cur_header == header_prevrange(cursorText, curLev, next_section[1])
        next_hidden == tag_nextrange(cursorText, "hidden", curLev, curLine)
        newShow == next_hidden # <<>> /\ next_hidden = next_section
    IN  /\ IF curSec = <<>>
           THEN /\ op' = [name |-> "on_section_click", branch |-> "no section"]
                /\ error' = "none"
                /\ UNCHANGED <<cursorText, foldTree>>
           ELSE IF next_section = <<>>
           THEN /\ op' = [name |-> "on_section_click", branch |-> "no range"]
                /\ error' = "none"
                /\ UNCHANGED <<cursorText, foldTree>>
           ELSE IF cur_header = 0
           THEN /\ op' = [name |-> "on_section_click", branch |-> "no header"]
                /\ error' = "IndexError"
                /\ UNCHANGED <<cursorText, foldTree>>
           ELSE /\ cursorText' =
                     IF newShow
                     THEN set_glyph(tag_remove(cursorText, "hidden", curLev,
                                               next_section[1], next_section[2]),
                                    cur_header, "-")
                     ELSE set_glyph(tag_add(cursorText, "hidden", curLev,
                                            next_section[1], next_section[2]),
                                    cur_header, "+")
                /\ foldTree' = set_show(foldTree, curSec, newShow)
                /\ op' = [name |-> "on_section_click", branch |-> IF newShow THEN "show" ELSE "hide"]
                /\ error' = "none"
        /\ UNCHANGED <<astVars, focus, pendingSelect, curIID, curCursor, historyVars,
                       searchVars, doublesBtns, searchBtn, markerVars, outCursor, cursorList,
                       show_default, foldMarker>>

\* CursorOutputFrame._on_attr_click for a click on the attribute name in
\* line curLine
on_attr_click(curLine) ==
    LET curSec == find_section(foldTree, curLine)
    IN  /\ foldMarker' = IF curSec # <<>> THEN curSec ELSE foldMarker
        /\ cursorText' = [i \in 1..Len(cursorText) |->
                            IF i = curLine THEN [cursorText[i] EXCEPT !.tag = "marked"]
                            ELSE IF cursorText[i].tag = "marked"
                            THEN [cursorText[i] EXCEPT !.tag = "attr_name"]
                            ELSE cursorText[i]]
        /\ op' = [name |-> "on_attr_click", branch |-> IF curSec # <<>> THEN "marked" ELSE "no section"]
        /\ error' = "none"
        /\ UNCHANGED <<astVars, focus, pendingSelect, curIID, curCursor, historyVars,
                       searchVars, doublesBtns, searchBtn, markerVars, outCursor, cursorList,
                       foldTree, show_default>>

\* the loops of expand_all (show) and collapse_all on the text: the glyph of
\* the header before every range of a section tag, and the hidden tag on the
\* range
set_all_glyphs(text, show) ==
    LET levels == 0..(MAX_DEEP - 1)
        headers == UNION {{header_prevrange(text, n, r[1]) : r \in tag_ranges(text, "section", n)} :
                             n \in levels}
    IN  [i \in 1..Len(text) |->
           [text[i] EXCEPT !.glyph = IF i \in headers THEN (IF show THEN "-" ELSE "+") ELSE @,
                           !.hidden = IF show THEN @ \ (text[i].section \cap levels)
                                      ELSE @ \cup (text[i].section \cap levels)]]

\* CursorOutputFrame.expand_all (show) / collapse_all, from the context menu
expand_or_collapse_all(name, show) ==
    /\ show_default' = show
    /\ foldTree' = set_all_show(foldTree, show)
    /\ cursorText' = set_all_glyphs(cursorText, show)
    /\ op' = [name |-> name, branch |-> "none"]
    /\ error' = "none"
    /\ UNCHANGED <<astVars, focus, pendingSelect, curIID, curCursor, historyVars,
                   searchVars, doublesBtns, searchBtn, markerVars, outCursor, cursorList,
                   foldMarker>>

----------------------------------------------------------------------------
\* The state after Application.__init__: OutputFrame.__init__ ends with
\* clear(), no translation unit is shown.  The statistics are assigned by
\* set_translationunit only and read nowhere before.

Init ==
    /\ translationunit = None
    /\ mapIIDtoCursor = EmptyMap
    /\ mapCursorToIID = EmptyMap
    /\ cnt = [cntCursors |-> 0, cntDouble |-> 0, cntMaxDoubles |-> 0,
              cntMaxChildren |-> 0, cntMaxDeep |-> 0]
    /\ serial = 0
    /\ focus = NoIID
    /\ pendingSelect = FALSE
    /\ curIID = NoIID
    /\ curCursor = None
    /\ history = <<>>
    /\ historyPos = -1
    /\ searchResult = <<>>
    /\ searchPos = -1
    /\ historyBackwardBtn = "disabled"
    /\ historyForwardBtn = "disabled"
    /\ doublesBtns = "disabled"
    /\ searchBtn = "disabled"
    /\ searchBtns = "disabled"
    /\ marker = [n \in 0..(MARKER_BTN_CNT - 1) |-> None]
    /\ markerSetState = 0
    /\ markerSetBtn = "disabled"
    /\ markerBtns = [n \in 0..(MARKER_BTN_CNT - 1) |-> "disabled"]
    /\ outCursor = None
    /\ cursorText = <<>>
    /\ cursorList = <<>>
    /\ foldTree = FoldSectionTree
    /\ show_default = FALSE
    /\ foldMarker = <<>>
    /\ parses = 0
    /\ walk = [selected |-> <<>>, back |-> 0, fwd |-> 0]
    /\ cycle = [startPos |-> -1, startCur |-> NoIID, steps |-> 0]
    /\ folds = 0
    /\ op = [name |-> "init", branch |-> "none"]
    /\ error = "none"

----------------------------------------------------------------------------
\* Spec: every user input in any order.  A user input is handled when no
\* <<TreeviewSelect>> is queued: the event a handler queues is delivered
\* before the next input is read.

Parse ==
    /\ ~pendingSelect
    /\ parses < MaxParses
    /\ \E tu \in TUNames : on_parse(tu)
    /\ parses' = parses + 1
    /\ UNCHANGED <<walk, cycle, folds>>

TreeClick ==
    /\ ~pendingSelect
    /\ \E iid \in DOMAIN mapIIDtoCursor : tree_click(iid)
    /\ UNCHANGED obsVars

\* links are shown once a cursor is shown, and lead to cursors of the tree
CursorClick ==
    /\ ~pendingSelect
    /\ curIID # NoIID
    /\ \E cursor \in DOMAIN mapCursorToIID : on_cursor_click(cursor)
    /\ UNCHANGED obsVars

OnCursorSelection ==
    /\ pendingSelect
    /\ on_cursor_selection
    /\ UNCHANGED obsVars

GoHistoryBackward ==
    /\ ~pendingSelect
    /\ go_history_backward
    /\ UNCHANGED obsVars

GoHistoryForward ==
    /\ ~pendingSelect
    /\ go_history_forward
    /\ UNCHANGED obsVars

GoDoublesBackward ==
    /\ ~pendingSelect
    /\ go_doubles_step("go_doubles_backward", -1)
    /\ UNCHANGED obsVars

GoDoublesForward ==
    /\ ~pendingSelect
    /\ go_doubles_step("go_doubles_forward", 1)
    /\ UNCHANGED obsVars

OnSearch ==
    /\ ~pendingSelect
    /\ IF searchBtn = "disabled"
       THEN Disabled("on_search")
       ELSE \E dialog \in {<<>>} \cup {<<d>> : d \in SearchData} : on_search(dialog)
    /\ UNCHANGED obsVars

GoSearchBackward ==
    /\ ~pendingSelect
    /\ go_search_step("go_search_backward", -1)
    /\ UNCHANGED obsVars

GoSearchForward ==
    /\ ~pendingSelect
    /\ go_search_step("go_search_forward", 1)
    /\ UNCHANGED obsVars

Next ==
    \/ Parse
    \/ TreeClick
    \/ CursorClick
    \/ OnCursorSelection
    \/ GoHistoryBackward
    \/ GoHistoryForward
    \/ GoDoublesBackward
    \/ GoDoublesForward
    \/ OnSearch
    \/ GoSearchBackward
    \/ GoSearchForward

Spec == Init /\ [][Next]_vars

----------------------------------------------------------------------------
\* SpecWalk: one history walk.  A translation unit is parsed, the user
\* selects pairwise different items (walk.selected), then steps backward
\* through the history as often as one less than that, then forward as
\* often.

Range(seq) == {seq[i] : i \in 1..Len(seq)}

WalkParse ==
    /\ translationunit = None
    /\ on_parse("wide")
    /\ UNCHANGED obsVars

WalkSelect ==
    /\ ~pendingSelect
    /\ walk.back = 0
    /\ Len(walk.selected) <= MAX_HISTORY
    /\ \E iid \in DOMAIN mapIIDtoCursor \ Range(walk.selected) :
          /\ tree_click(iid)
          /\ walk' = [walk EXCEPT !.selected = Append(@, iid)]
    /\ UNCHANGED <<parses, cycle, folds>>

WalkBackward ==
    /\ ~pendingSelect
    /\ walk.fwd = 0
    /\ walk.back < Len(walk.selected) - 1
    /\ go_history_backward
    /\ walk' = [walk EXCEPT !.back = @ + 1]
    /\ UNCHANGED <<parses, cycle, folds>>

WalkForward ==
    /\ ~pendingSelect
    /\ Len(walk.selected) > 0
    /\ walk.back = Len(walk.selected) - 1
    /\ walk.fwd < Len(walk.selected) - 1
    /\ go_history_forward
    /\ walk' = [walk EXCEPT !.fwd = @ + 1]
    /\ UNCHANGED <<parses, cycle, folds>>

NextWalk ==
    \/ WalkParse
    \/ WalkSelect
    \/ OnCursorSelection
    \/ WalkBackward
    \/ WalkForward

SpecWalk == Init /\ [][NextWalk]_vars

----------------------------------------------------------------------------
\* SpecCycle: one walk round a search result.  A translation unit is parsed,
\* the user selects items and searches, then clicks the search [>] as often
\* as the result is long; cycle keeps searchPos and curIID of the first click.

CycleParse ==
    /\ translationunit = None
    /\ \E tu \in TUNames : on_parse(tu)
    /\ UNCHANGED obsVars

CycleTreeClick ==
    /\ cycle.steps = 0
    /\ TreeClick

CycleSearch ==
    /\ cycle.steps = 0
    /\ OnSearch

CycleBackward ==
    /\ cycle.steps = 0
    /\ GoSearchBackward

CycleForward ==
    /\ ~pendingSelect
    /\ Len(searchResult) > 0
    /\ cycle.steps < Len(searchResult)
    /\ go_search_step("go_search_forward", 1)
    /\ cycle' = IF cycle.steps = 0
                THEN [startPos |-> searchPos, startCur |-> curIID, steps |-> 1]
                ELSE [cycle EXCEPT !.steps = @ + 1]
    /\ UNCHANGED <<parses, walk, folds>>

NextCycle ==
    \/ CycleParse
    \/ CycleTreeClick
    \/ CycleSearch
    \/ CycleBackward
    \/ CycleForward
    \/ OnCursorSelection

SpecCycle == Init /\ [][NextCycle]_vars

----------------------------------------------------------------------------
\* SpecIndex: the identity index and the search on it.  The window has shown
\* translation units before or not (ItemCounters); the user parses
\* translation units of every shape and searches them.

InitIndex ==
    /\ translationunit = None
    /\ mapIIDtoCursor = EmptyMap
    /\ mapCursorToIID = EmptyMap
    /\ cnt = [cntCursors |-> 0, cntDouble |-> 0, cntMaxDoubles |-> 0,
              cntMaxChildren |-> 0, cntMaxDeep |-> 0]
    /\ serial \in ItemCounters
    /\ focus = NoIID
    /\ pendingSelect = FALSE
    /\ curIID = NoIID
    /\ curCursor = None
    /\ history = <<>>
    /\ historyPos = -1
    /\ searchResult = <<>>
    /\ searchPos = -1
    /\ historyBackwardBtn = "disabled"
    /\ historyForwardBtn = "disabled"
    /\ doublesBtns = "disabled"
    /\ searchBtn = "disabled"
    /\ searchBtns = "disabled"
    /\ marker = [n \in 0..(MARKER_BTN_CNT - 1) |-> None]
    /\ markerSetState = 0
    /\ markerSetBtn = "disabled"
    /\ markerBtns = [n \in 0..(MARKER_BTN_CNT - 1) |-> "disabled"]
    /\ outCursor = None
    /\ cursorText = <<>>
    /\ cursorList = <<>>
    /\ foldTree = FoldSectionTree
    /\ show_default = FALSE
    /\ foldMarker = <<>>
    /\ parses = 0
    /\ walk = [selected |-> <<>>, back |-> 0, fwd |-> 0]
    /\ cycle = [startPos |-> -1, startCur |-> NoIID, steps |-> 0]
    /\ folds = 0
    /\ op = [name |-> "init", branch |-> "none"]
    /\ error = "none"

IndexParse ==
    /\ ~pendingSelect
    /\ parses < MaxParses
    /\ \E tu \in IndexTUNames : on_parse(tu)
    /\ parses' = parses + 1
    /\ UNCHANGED <<walk, cycle, folds>>

NextIndex ==
    \/ IndexParse
    \/ OnSearch
    \/ OnCursorSelection

SpecIndex == InitIndex /\ [][NextIndex]_vars

----------------------------------------------------------------------------
\* SpecDoubles: one walk round the items of a cursor.  A translation unit
\* with a cursor found several times is parsed, the user selects items and
\* steps through the history and the doubles, then clicks the doubles [>] as
\* often as the current cursor has items; cycle keeps the index of the
\* current item in the cursor's list and the item at the first click.

DoublesTUNames == {"double", "triple", "nested"}

DoublesParse ==
    /\ translationunit = None
    /\ \E tu \in DoublesTUNames : on_parse(tu)
    /\ UNCHANGED obsVars

DoublesTreeClick ==
    /\ cycle.steps = 0
    /\ TreeClick

DoublesHistoryBackward ==
    /\ cycle.steps = 0
    /\ GoHistoryBackward

DoublesBackward ==
    /\ cycle.steps = 0
    /\ GoDoublesBackward

DoublesForward ==
    /\ ~pendingSelect
    /\ LET iids == get_current_iids(mapIIDtoCursor, mapCursorToIID, focus)
       IN  IF IsList(iids) /\ doublesBtns = "normal"
           THEN /\ cycle.steps < Len(iids)
                /\ cycle' = IF cycle.steps = 0
                            THEN [startPos |-> IndexOf(iids, curIID), startCur |-> curIID,
                                  steps |-> 1]
                            ELSE [cycle EXCEPT !.steps = @ + 1]
           ELSE /\ cycle.steps = 0
                /\ cycle' = cycle
    /\ go_doubles_step("go_doubles_forward", 1)
    /\ UNCHANGED <<parses, walk, folds>>

NextDoubles ==
    \/ DoublesParse
    \/ DoublesTreeClick
    \/ DoublesHistoryBackward
    \/ DoublesBackward
    \/ DoublesForward
    \/ OnCursorSelection

SpecDoubles == Init /\ [][NextDoubles]_vars

----------------------------------------------------------------------------
\* SpecMarker: the [MS] and [M#] buttons.  The user parses translation
\* units (clang may fail to load the file), selects items, marks cursors and
\* jumps to marked cursors.

MarkerTUNames == {"double"}

MarkerParse ==
    /\ ~pendingSelect
    /\ parses < MaxParses
    /\ \E tu \in MarkerTUNames : on_parse(tu)
    /\ parses' = parses + 1
    /\ UNCHANGED <<walk, cycle, folds>>

MarkerParseError ==
    /\ ~pendingSelect
    /\ parses < MaxParses
    /\ on_parse_error
    /\ parses' = parses + 1
    /\ UNCHANGED <<walk, cycle, folds>>

OnMarkerSet ==
    /\ ~pendingSelect
    /\ on_marker_set
    /\ UNCHANGED obsVars

\* the [M#] buttons the user clicks: the first one, the last one and one
\* between them (the buttons differ in nothing but their number)
MarkerBtnNums == {0, 3, MARKER_BTN_CNT - 1}

OnMarkerX ==
    /\ ~pendingSelect
    /\ \E num \in MarkerBtnNums : on_marker_x(num)
    /\ UNCHANGED obsVars

NextMarker ==
    \/ MarkerParse
    \/ MarkerParseError
    \/ TreeClick
    \/ OnCursorSelection
    \/ OnMarkerSet
    \/ OnMarkerX

SpecMarker == Init /\ [][NextMarker]_vars

----------------------------------------------------------------------------
\* SpecFold: the output of the cursor.  The user parses a translation unit
\* with a variable, selects items, folds and unfolds sections, marks
\* attribute names and expands or collapses everything.

FoldTUNames == {"var"}

FoldParse ==
    /\ ~pendingSelect
    /\ parses < MaxParses
    /\ \E tu \in FoldTUNames : on_parse(tu)
    /\ parses' = parses + 1
    /\ UNCHANGED <<walk, cycle, folds>>

\* a click on the [+] or [-] of a header the user sees
SectionClick ==
    /\ ~pendingSelect
    /\ folds < MaxFoldOps
    /\ \E curLine \in VisibleHeaders :
          /\ cursorText[curLine].deep < MAX_DEEP
          /\ on_section_click(curLine)
    /\ folds' = folds + 1
    /\ UNCHANGED <<parses, walk, cycle>>

\* a click on an attribute name the user sees (the names have tag attr_name)
AttrClick ==
    /\ ~pendingSelect
    /\ folds < MaxFoldOps
    /\ \E curLine \in VisibleHeaders :
          /\ cursorText[curLine].tag \in {"attr_name", "marked"}
          /\ on_attr_click(curLine)
    /\ folds' = folds + 1
    /\ UNCHANGED <<parses, walk, cycle>>

ExpandAll ==
    /\ ~pendingSelect
    /\ folds < MaxFoldOps
    /\ expand_or_collapse_all("expand_all", TRUE)
    /\ folds' = folds + 1
    /\ UNCHANGED <<parses, walk, cycle>>

CollapseAll ==
    /\ ~pendingSelect
    /\ folds < MaxFoldOps
    /\ expand_or_collapse_all("collapse_all", FALSE)
    /\ folds' = folds + 1
    /\ UNCHANGED <<parses, walk, cycle>>

NextFold ==
    \/ FoldParse
    \/ TreeClick
    \/ OnCursorSelection
    \/ SectionClick
    \/ AttrClick
    \/ ExpandAll
    \/ CollapseAll

SpecFold == Init /\ [][NextFold]_vars

----------------------------------------------------------------------------
\* SpecRender: what the output of a cursor looks like.  The user parses
\* translation units with a variable of a type that is its own canonical
\* type, with a pointer to a pointer ... to a function and with a comment
\* that is not ASCII, selects items and expands or collapses everything.

RenderTUNames == {"var", "ptr", "comment"}

RenderParse ==
    /\ ~pendingSelect
    /\ parses < MaxParses
    /\ \E tu \in RenderTUNames : on_parse(tu)
    /\ parses' = parses + 1
    /\ UNCHANGED <<walk, cycle, folds>>

NextRender ==
    \/ RenderParse
    \/ TreeClick
    \/ OnCursorSelection
    \/ ExpandAll
    \/ CollapseAll

SpecRender == Init /\ [][NextRender]_vars

----------------------------------------------------------------------------
\* SpecTokens: the output of functions with many tokens.  The user parses
\* the file and selects items.

TokensTUNames == {"tokens"}

TokensParse ==
    /\ ~pendingSelect
    /\ parses < MaxParses
    /\ \E tu \in TokensTUNames : on_parse(tu)
    /\ parses' = parses + 1
    /\ UNCHANGED <<walk, cycle, folds>>

NextTokens ==
    \/ TokensParse
    \/ TreeClick
    \/ OnCursorSelection

SpecTokens == Init /\ [][NextTokens]_vars

----------------------------------------------------------------------------
\* SpecFoldTree: FoldSectionTree on its own.  get_child is called on any
\* section with any number, set_all_show with True or False and set_line
\* on any section, in any order; nothing else of the program runs.

FoldTreeRest == <<astVars, focus, pendingSelect, curIID, curCursor, historyVars, searchVars,
                  doublesBtns, searchBtn, markerVars, outCursor, cursorText, cursorList,
                  foldMarker, error, obsVars>>

FoldTreeGetChild ==
    /\ \E path \in DOMAIN foldTree, num \in 0..MaxChildNum :
          /\ foldTree[path].deep < MaxTreeDeep
          /\ foldTree' = get_child(foldTree, show_default, path, num)
    /\ op' = [name |-> "get_child", branch |-> "none"]
    /\ UNCHANGED <<show_default, FoldTreeRest>>

FoldTreeSetAllShow ==
    /\ \E show \in BOOLEAN :
          /\ show_default' = show
          /\ foldTree' = set_all_show(foldTree, show)
    /\ op' = [name |-> "set_all_show", branch |-> "none"]
    /\ UNCHANGED FoldTreeRest

FoldTreeSetLine ==
    /\ \E path \in DOMAIN foldTree \ {<<>>} :
          foldTree' = set_line(foldTree, path, Len(path))
    /\ op' = [name |-> "set_line", branch |-> "none"]
    /\ UNCHANGED <<show_default, FoldTreeRest>>

NextFoldTree ==
    \/ FoldTreeGetChild
    \/ FoldTreeSetAllShow
    \/ FoldTreeSetLine

SpecFoldTree == Init /\ [][NextFoldTree]_vars

----------------------------------------------------------------------------
\* Properties of the history

\* C1: when _on_cursor_selection sees a newly selected item while the
\* history position is not on the last entry, every entry after the position
\* is dropped and the item appended; afterwards the position is on the last
\* entry, which is the item, the history [>] is disabled, and a click on it
\* changes nothing.
C1_NewSelectionErasesFuture ==
    [][ /\ (op'.name = "on_cursor_selection" /\ focus # curIID /\ historyPos + 1 < Len(history))
           => /\ history' = Append(SubSeq(history, 1, historyPos + 1), focus)
              /\ historyPos' = Len(history') - 1
              /\ history'[historyPos' + 1] = focus
              /\ curIID' = focus
              /\ historyForwardBtn' = "disabled"
        /\ (op'.name = "go_history_forward" /\ op = [name |-> "on_cursor_selection", branch |-> "truncate"])
           => UNCHANGED <<history, historyPos, curIID, curCursor, focus, pendingSelect>>
      ]_vars

C1_Witness ==
    /\ op = [name |-> "on_cursor_selection", branch |-> "truncate"]
    /\ Len(history) = 2
    /\ historyForwardBtn = "disabled"

\* C2: from an empty history, after n <= MAX_HISTORY selections of pairwise
\* different items, n-1 steps backward make the first selected item current
\* and n-1 steps forward after that make the last selected item current.
C2_WalkBackAndForth ==
    LET n == Len(walk.selected)
    IN  (~pendingSelect /\ 1 <= n /\ n <= MAX_HISTORY /\ walk.back = n - 1)
        => /\ walk.fwd = 0 => curIID = walk.selected[1]
           /\ walk.fwd = n - 1 => curIID = walk.selected[n]

C2_Witness ==
    /\ ~pendingSelect
    /\ Len(walk.selected) = MAX_HISTORY
    /\ walk.back = MAX_HISTORY - 1
    /\ walk.fwd = MAX_HISTORY - 1
    /\ MAX_HISTORY > 1

\* C3: the history never holds more than MAX_HISTORY entries; a new
\* selection on a full history drops the oldest entry, keeps the others in
\* their order, appends the item and leaves the position on the last entry.
C3_HistoryBounded ==
    [][ /\ Len(history') <= MAX_HISTORY
        /\ (op'.name = "on_cursor_selection" /\ focus # curIID /\ historyPos + 1 >= MAX_HISTORY)
           => /\ history' = Append(Tail(history), focus)
              /\ historyPos' = Len(history') - 1
              /\ 0 <= historyPos'
      ]_vars

C3_Witness ==
    /\ op = [name |-> "on_cursor_selection", branch |-> "evict"]
    /\ Len(history) = MAX_HISTORY

\* C4: _on_cursor_selection for the item that is current already leaves the
\* history, the history position, the current item and the shown cursor as
\* they are.
C4_SameSelectionNoOp ==
    [][ (op'.name = "on_cursor_selection" /\ focus = curIID)
        => UNCHANGED <<history, historyPos, curIID, curCursor>> ]_vars

C4_Witness ==
    /\ op = [name |-> "on_cursor_selection", branch |-> "same"]
    /\ curIID # NoIID
    /\ curIID = history[historyPos + 1]

\* C5: the history steps never change the history itself.  In range they
\* move the position by one and make history[position] current, and the
\* <<TreeviewSelect>> they cause adds nothing; at the first entry (backward),
\* at the last entry (forward) or with an empty history they change nothing.
C5_HistoryWalkKeepsLog ==
    [][ /\ op'.name \in {"go_history_backward", "go_history_forward"}
           => /\ history' = history
              /\ LET step == IF op'.name = "go_history_backward" THEN -1 ELSE 1
                     inRange == IF step = -1 THEN historyPos > 0
                                ELSE historyPos + 1 < Len(history)
                 IN  IF inRange
                     THEN /\ historyPos' = historyPos + step
                          /\ curIID' = history[historyPos' + 1]
                          /\ focus' = curIID'
                     ELSE UNCHANGED <<historyPos, curIID, curCursor, focus, pendingSelect,
                                      searchResult, searchPos>>
        /\ (op'.name = "on_cursor_selection"
              /\ op.name \in {"go_history_backward", "go_history_forward"})
           => UNCHANGED <<history, historyPos, curIID, curCursor>>
      ]_vars

C5_Witness ==
    /\ op = [name |-> "on_cursor_selection", branch |-> "same"]
    /\ historyPos + 1 < Len(history)
    /\ historyPos > 0
    /\ curIID = history[historyPos + 1]

----------------------------------------------------------------------------
\* Properties of the search

\* C6: a search with a regular expression that does not compile, made
\* while an earlier search result is shown, reports the error and leaves
\* that result, searchPos, the current item and the history as they are.
C6_InvalidPatternKeepsResult ==
    [][ (op'.name = "on_search" /\ op'.branch = "invalid" /\ Len(searchResult) > 0)
        => /\ error' = "Search RegEx"
           /\ UNCHANGED <<searchResult, searchPos, curIID, curCursor, history, historyPos>>
      ]_vars

\* C7: a search that succeeds sets searchPos to 0 and, when it finds
\* something, selects the first item of the result, whatever item is current.
C7_SearchSelectsFirst ==
    [][ (op'.name = "on_search" /\ op'.branch \in {"found", "empty"})
        => /\ searchPos' = 0
           /\ Len(searchResult') > 0 => focus' = searchResult'[1]
      ]_vars

\* the steps of C8: with a result of n > 0 items a search step moves
\* searchPos to (searchPos + 1) % n or (searchPos - 1) % n and selects the
\* item there, which the following <<TreeviewSelect>> makes current.
SearchStepsWrap ==
    /\ (op'.name \in {"go_search_backward", "go_search_forward"} /\ Len(searchResult) > 0)
       => /\ searchPos' = (IF op'.name = "go_search_forward"
                           THEN searchPos + 1 ELSE searchPos - 1) % Len(searchResult)
          /\ focus' = searchResult[searchPos' + 1]
          /\ searchResult' = searchResult
    /\ (op'.name = "on_cursor_selection"
          /\ op.name \in {"go_search_backward", "go_search_forward"} /\ op.branch = "moved")
       => /\ curIID' = searchResult[searchPos + 1]
          /\ searchPos' = searchPos

\* the walk round the search result is complete and its last selection delivered
CycleDone == cycle.steps > 0 /\ cycle.steps = Len(searchResult) /\ ~pendingSelect

\* C8 as claimed: the steps wrap, and n steps forward bring searchPos and
\* the current item back to where they were before the first.
C8_CycleRestoresCurrent ==
    /\ [][SearchStepsWrap]_vars
    /\ [](CycleDone => (searchPos = cycle.startPos /\ curIID = cycle.startCur))

\* C8 as the code has it: the steps wrap, and n steps forward bring searchPos
\* back to where it was and make the item there current; that is the item
\* current before the first step if the search position was on it then.
C8_CycleRestoresCursor ==
    /\ [][SearchStepsWrap]_vars
    /\ [](CycleDone =>
            /\ searchPos = cycle.startPos
            /\ curIID = searchResult[searchPos + 1]
            /\ cycle.startCur = searchResult[cycle.startPos + 1] => curIID = cycle.startCur)

C8_Witness ==
    /\ CycleDone
    /\ Len(searchResult) >= 2
    /\ cycle.startPos > 0
    /\ cycle.startCur # searchResult[cycle.startPos + 1]

\* C9: a click on a search step button while the search result is empty
\* raises nothing and changes neither searchPos nor the selection, the
\* current item or the history.
C9_EmptySearchStepNoOp ==
    [][ (op'.name \in {"go_search_backward", "go_search_forward"} /\ Len(searchResult) = 0)
        => /\ error' = "none"
           /\ UNCHANGED <<searchResult, searchPos, focus, pendingSelect, curIID, curCursor,
                          history, historyPos>>
      ]_vars

C9_Witness ==
    /\ op.name \in {"go_search_backward", "go_search_forward"}
    /\ searchResult = <<>>
    /\ translationunit # None
    /\ curIID # NoIID

\* C10: when _on_cursor_selection has run for a selected item (after a click
\* in the tree, a link, a doubles, search or history step), the search
\* result is the same list as before; if the item is in it, searchPos is
\* the item's index, and if not, searchPos is unchanged.
C10_SearchPosFollowsSelection ==
    [][ op'.name = "on_cursor_selection"
        => /\ searchResult' = searchResult
           /\ curIID' = focus
           /\ IF \E i \in 1..Len(searchResult) : searchResult[i] = focus
              THEN searchResult[searchPos' + 1] = focus
              ELSE searchPos' = searchPos
      ]_vars

C10_Witness ==
    /\ op.name = "on_cursor_selection"
    /\ op.branch # "same"
    /\ Len(searchResult) >= 2
    /\ searchPos > 0
    /\ searchResult[searchPos + 1] = curIID

----------------------------------------------------------------------------
\* Properties of the identity index

\* the height of the tree below cursor c of translation unit tu
RECURSIVE Height(_, _)
Height(tu, c) ==
    LET children == TranslationUnits[tu].children[c]
        below == {Height(tu, children[i]) : i \in 1..Len(children)}
    IN  IF children = <<>> THEN 0
        ELSE 1 + CHOOSE h \in below : \A g \in below : g <= h

\* how often IID p is in the list of cursor c
Occurrences(cmap, c, p) == Cardinality({i \in 1..Len(cmap[c]) : cmap[c][i] = p})

\* C11: when a translation unit has been parsed, every item the Treeview
\* gave out for it is in mapIIDtoCursor, the list mapCursorToIID has for the
\* item's cursor holds the item exactly once, and no other cursor's list
\* holds it.
C11_IndexConsistent ==
    [][ op'.name = "on_parse"
        => LET P == (serial + 1)..serial'
           IN  /\ P # {}
               /\ DOMAIN mapIIDtoCursor' = P
               /\ \A p \in P :
                     /\ mapIIDtoCursor'[p] \in DOMAIN mapCursorToIID'
                     /\ Occurrences(mapCursorToIID', mapIIDtoCursor'[p], p) = 1
                     /\ \A c \in DOMAIN mapCursorToIID' \ {mapIIDtoCursor'[p]} :
                           Occurrences(mapCursorToIID', c, p) = 0
      ]_vars

C11_Witness ==
    /\ op.name = "on_parse"
    /\ \E c \in DOMAIN mapCursorToIID : Len(mapCursorToIID[c]) = 3
    /\ serial > 4096

\* C12: the statistic cntDouble of the parsed translation unit is the
\* number of cursors that have more than one item.
C12_DoubleCountsIdentities ==
    translationunit # None
    => cnt.cntDouble = Cardinality({c \in DOMAIN mapCursorToIID : Len(mapCursorToIID[c]) > 1})

\* C13: of the parsed translation unit, cntCursors is the number of items
\* (the root's among them), cntMaxChildren the largest number of children a
\* cursor has and cntMaxDeep the depth of the deepest item, the root's being 0.
C13_Statistics ==
    translationunit # None
    => /\ cnt.cntCursors = Cardinality(DOMAIN mapIIDtoCursor)
       /\ \A c \in DOMAIN mapCursorToIID :
             Len(TranslationUnits[translationunit].children[c]) <= cnt.cntMaxChildren
       /\ \E c \in DOMAIN mapCursorToIID :
             Len(TranslationUnits[translationunit].children[c]) = cnt.cntMaxChildren
       /\ cnt.cntMaxDeep = Height(translationunit, TranslationUnits[translationunit].cursor)

C13_Witness ==
    /\ translationunit = "shared"
    /\ cnt = [cntCursors |-> 5, cntDouble |-> 1, cntMaxDoubles |-> 2,
              cntMaxChildren |-> 2, cntMaxDeep |-> 2]

\* C14: the items of a search result are in the order the Treeview gave
\* them out.
C14_SearchInCreationOrder ==
    \A i, j \in 1..Len(searchResult) : i < j => searchResult[i] < searchResult[j]

----------------------------------------------------------------------------
\* Properties of the doubles

\* the items of the cursor of the current item
CurrentDoubles == IF curIID = NoIID THEN <<>> ELSE mapCursorToIID[mapIIDtoCursor[curIID]]

\* the steps of C15: with a current item whose cursor has n > 1 items a
\* doubles step selects the item of that cursor at (index + 1) % n or
\* (index - 1) % n, and the <<TreeviewSelect>> after it makes the item
\* current and appends it to the history as _add_history does for any
\* newly selected item; with a cursor of one item the step changes nothing.
DoublesStepsWrap ==
    LET iids == CurrentDoubles
        n == Len(iids)
        idx == CHOOSE i \in 1..n : iids[i] = curIID
        step == IF op'.name = "go_doubles_forward" THEN 1 ELSE -1
        kept == SubSeq(history, 1, historyPos + 1)
    IN  /\ (op'.name \in {"go_doubles_backward", "go_doubles_forward"} /\ n > 1)
           => /\ error' = "none"
              /\ focus' = iids[((idx - 1 + step) % n) + 1]
              /\ focus' # curIID
              /\ mapIIDtoCursor[focus'] = mapIIDtoCursor[curIID]
              /\ pendingSelect'
        /\ (op'.name \in {"go_doubles_backward", "go_doubles_forward"} /\ n <= 1)
           => /\ error' = "none"
              /\ UNCHANGED <<focus, pendingSelect, curIID, curCursor, history, historyPos,
                             searchResult, searchPos>>
        /\ (op'.name = "on_cursor_selection"
              /\ op.name \in {"go_doubles_backward", "go_doubles_forward"} /\ op.branch = "moved")
           => /\ curIID' = focus
              /\ mapIIDtoCursor[curIID'] = mapIIDtoCursor[curIID]
              /\ history' = Append(IF Len(kept) >= MAX_HISTORY THEN Tail(kept) ELSE kept, focus)
              /\ historyPos' = Len(history') - 1

\* the walk round the doubles is complete and its last selection delivered
DoublesCycleDone == cycle.steps > 0 /\ cycle.steps = Len(CurrentDoubles) /\ ~pendingSelect

\* C15: the doubles steps wrap round the items of the current cursor and go
\* into the history, and as many steps forward as the cursor has items make
\* the item current that was current before the first.
C15_DoublesCycle ==
    /\ [][DoublesStepsWrap]_vars
    /\ [](DoublesCycleDone => curIID = cycle.startCur)

C15_Witness ==
    /\ DoublesCycleDone
    /\ Len(CurrentDoubles) = 3
    /\ cycle.startPos = 1
    /\ Len(history) = MAX_HISTORY

----------------------------------------------------------------------------
\* Properties of the markers

\* C16: a click on [M#] that is to jump (markerSetState is 0) while no
\* cursor is marked for the button raises nothing and changes neither the
\* selection, the current item, the history, the search nor any marker.
C16_EmptyMarkerNoOp ==
    [][ \A num \in DOMAIN marker :
          (op'.name = MarkerCommand(num) /\ markerSetState = 0 /\ marker[num] = None)
          => /\ error' = "none"
             /\ UNCHANGED <<focus, pendingSelect, curIID, curCursor, history, historyPos,
                            searchResult, searchPos, marker, markerSetState>>
      ]_vars

C16_Witness ==
    \E num \in DOMAIN marker :
       /\ op = [name |-> MarkerCommand(num), branch |-> "disabled"]
       /\ markerSetState = 0
       /\ marker[num] = None
       /\ \E m \in DOMAIN marker : marker[m] # None
       /\ curIID # NoIID

\* C17: a click on [M#] that is to mark (markerSetState is 1) stores the
\* cursor shown, which is the cursor of the current item, for that button
\* and leaves the other markers, the selection, the current item, the
\* history and the search as they are; there are MARKER_BTN_CNT = 5 markers
\* in every state.
C17_MarkStoresShownCursor ==
    [][ /\ \A num \in DOMAIN marker :
             (op'.name = MarkerCommand(num) /\ op'.branch = "set")
             => /\ curCursor = mapIIDtoCursor[curIID]
                /\ curCursor = outCursor
                /\ marker'[num] = curCursor
                /\ \A m \in DOMAIN marker \ {num} : marker'[m] = marker[m]
                /\ UNCHANGED <<focus, pendingSelect, curIID, curCursor, history, historyPos,
                               searchResult, searchPos>>
        /\ DOMAIN marker' = 0..4
        /\ MARKER_BTN_CNT = 5
      ]_vars

C17_Witness ==
    /\ op = [name |-> MarkerCommand(3), branch |-> "set"]
    /\ marker[3] = "a"
    /\ marker[0] = "r"
    /\ marker[4] = None
    /\ Len(history) > 1

\* C18: when [parse] has been handled, with a translation unit shown or
\* without (clang failed), the history is empty and its position -1, the
\* search result is empty, no cursor is marked, no item is current and no
\* cursor is kept as the shown one, and no item of the tree shown before is
\* in the maps, which are empty when no translation unit is shown.
C18_ParseClearsAll ==
    [][ op'.name \in {"on_parse", "on_parse_error"}
        => /\ history' = <<>>
           /\ historyPos' = -1
           /\ searchResult' = <<>>
           /\ \A num \in DOMAIN marker' : marker'[num] = None
           /\ curIID' = NoIID
           /\ curCursor' = None
           /\ outCursor' = None
           /\ DOMAIN mapIIDtoCursor' \cap DOMAIN mapIIDtoCursor = {}
           /\ op'.name = "on_parse_error"
                => (DOMAIN mapIIDtoCursor' = {} /\ DOMAIN mapCursorToIID' = {})
      ]_vars

----------------------------------------------------------------------------
\* Properties of the fold tree

\* what set_cursor(c) writes in a program that has shown no cursor before:
\* the fold tree is the one of FoldSectionTree.__init__, nothing is marked
\* and show_default is the value of the class
FirstOutput(c) ==
    add_obj([text |-> <<>>, cursorList |-> <<>>, fold |-> FoldSectionTree,
             marker |-> <<>>, showDefault |-> FALSE, err |-> "none"],
            <<CursorValue(c)>>, <<>>)

\* C19: when [parse] has replaced a tree, the output of the first cursor
\* selected after it is the output
\* a new program gives for that cursor: no section, no fold state, no marked
\* attribute name and no expand all or collapse all from before the parse
\* shows in it.
C19_FirstOutputFresh ==
    [][ (op'.name = "on_cursor_selection" /\ history = <<>> /\ parses >= 2 /\ outCursor' # None)
        => /\ cursorText' = FirstOutput(outCursor').text
           /\ cursorList' = FirstOutput(outCursor').cursorList
      ]_vars

\* C20: a step that is no [parse] keeps every section of the fold tree, at
\* its place in the tree (the path from the root), with its childNr and its
\* deep, which is the length of the path from the root's children on, and
\* with at least the members it had; writing the output of a cursor also
\* keeps show of every section.
C20_SectionsKept ==
    [][ op'.name \notin {"on_parse", "on_parse_error"}
        => \A p \in DOMAIN foldTree :
              /\ p \in DOMAIN foldTree'
              /\ foldTree'[p].childNr = foldTree[p].childNr
              /\ foldTree'[p].deep = foldTree[p].deep
              /\ foldTree'[p].deep = Len(p) - 1
              /\ foldTree'[p].members >= foldTree[p].members
              /\ op'.name = "on_cursor_selection" => foldTree'[p].show = foldTree[p].show
      ]_vars

C20_Witness ==
    /\ op.name = "on_cursor_selection"
    /\ outCursor = "r"
    /\ \E p \in DOMAIN foldTree :
          /\ Len(p) = 2
          /\ foldTree[p].startLine = 0
          /\ foldTree[p].show
          /\ ~show_default
    /\ \E p \in DOMAIN foldTree : foldTree[p].startLine > 0

----------------------------------------------------------------------------
\* Properties of the fold state while output is written

\* C21: clear_lines gives a tree with the same sections, every one of them
\* with startLine 0 and with the show, the members, the childNr and the deep
\* it had.  After a cursor's output is written, a section has a start line
\* only if its header is in that line of the new text, and the header of
\* every section that was there before is written unfolded ([-]) if show of
\* the section was set and folded ([+]) if it was not.
C21_ClearLinesKeepsShow ==
    [][ LET cleared == clear_lines(foldTree)
        IN  /\ DOMAIN cleared = DOMAIN foldTree
            /\ \A p \in DOMAIN foldTree : cleared[p] = [foldTree[p] EXCEPT !.startLine = 0]
            /\ (op'.name = "on_cursor_selection" /\ op'.branch # "same")
               => /\ \A p \in DOMAIN foldTree' :
                        foldTree'[p].startLine > 0
                        => /\ foldTree'[p].startLine <= Len(cursorText')
                           /\ cursorText'[foldTree'[p].startLine].type = "header"
                           /\ cursorText'[foldTree'[p].startLine].node = p
                  /\ \A i \in 1..Len(cursorText') :
                        (cursorText'[i].type = "header" /\ cursorText'[i].node \in DOMAIN foldTree)
                        => /\ (cursorText'[i].glyph = "-") <=> foldTree[cursorText'[i].node].show
                           /\ (cursorText'[i].glyph = "+") <=> ~foldTree[cursorText'[i].node].show
      ]_vars

\* a cursor's output was written again: a section the user had unfolded is
\* in it, unfolded, and a section below a section of the output before has
\* no start line any more
C21_Witness ==
    /\ op.name = "on_cursor_selection"
    /\ op.branch # "same"
    /\ Len(history) >= 3
    /\ ~show_default
    /\ \E p \in DOMAIN foldTree :
          /\ foldTree[p].startLine > 0
          /\ foldTree[p].show
          /\ cursorText[foldTree[p].startLine].glyph = "-"
    /\ \E p \in DOMAIN foldTree : Len(p) >= 2 /\ foldTree[p].startLine = 0

\* C22: expand all sets show of every section of the fold tree, whatever its
\* deep and whether it has a start line or not, and collapse all clears it;
\* both keep the sections, their start lines and their members.  On every
\* tree the program builds, set_all_show(False) followed by
\* set_all_show(True) leaves show set on every section.
C22_SetAllShowReachesAll ==
    [][ /\ \A p \in DOMAIN foldTree :
              set_all_show(set_all_show(foldTree, FALSE), TRUE)[p].show
        /\ op'.name \in {"expand_all", "collapse_all"}
           => /\ DOMAIN foldTree' = DOMAIN foldTree
              /\ \A p \in DOMAIN foldTree :
                    foldTree'[p] = [foldTree[p] EXCEPT !.show = (op'.name = "expand_all")]
      ]_vars

\* expand all after collapse all (or a second expand all) on a tree with a
\* section three levels below the cursor's attributes that is not part of
\* the output shown
C22_Witness ==
    /\ op.name = "expand_all"
    /\ folds = MaxFoldOps
    /\ \E p \in DOMAIN foldTree :
          /\ Len(p) >= 4
          /\ foldTree[p].startLine = 0
          /\ foldTree[p].members = -1
          /\ foldTree[p].show
    /\ \E p \in DOMAIN foldTree : foldTree[p].startLine > 0

\* C23: a section that a step adds to the fold tree has show equal to
\* show_default, which is what the last expand all (True) or collapse all
\* (False) made it and is changed by nothing else; as long as the user has
\* neither expanded nor collapsed anything, show_default is False and every
\* section below the root is folded.
C23_NewSectionsTakeDefault ==
    [][ /\ \A p \in DOMAIN foldTree' \ DOMAIN foldTree : foldTree'[p].show = show_default'
        /\ show_default' = IF op'.name = "expand_all" THEN TRUE
                           ELSE IF op'.name = "collapse_all" THEN FALSE
                           ELSE show_default
        /\ folds = 0 => /\ ~show_default
                        /\ \A p \in DOMAIN foldTree : p # <<>> => ~foldTree[p].show
      ]_vars

\* the first output of a session is written after expand all: its sections,
\* those of the type of the variable among them, are new and unfolded
C23_Witness ==
    /\ op = [name |-> "on_cursor_selection", branch |-> "append"]
    /\ parses = 1
    /\ Len(history) = 1
    /\ outCursor = "v"
    /\ show_default
    /\ \E p \in DOMAIN foldTree :
          /\ Len(p) = 2
          /\ foldTree[p].startLine > 0
          /\ foldTree[p].show
          /\ cursorText[foldTree[p].startLine].glyph = "-"

\* C24: whatever objects and iterables are nested in a cursor's attributes,
\* the output stops at _MAX_DEEP: the fold tree has no section of a deep of
\* _MAX_DEEP or more, with a start line or without, and no line of the text
\* is written at such a deep.
C24_NoSectionBeyondMaxDeep ==
    /\ \A p \in DOMAIN foldTree : foldTree[p].deep < MAX_DEEP
    /\ \A i \in 1..Len(cursorText) : cursorText[i].deep < MAX_DEEP

\* C25: an object that is equal to one on the stack of objects being written
\* is written as the one line '... already shown!' and not descended into:
\* the line follows the header of its section directly and the lines after
\* it belong to sections further up.  The variable whose type is its own
\* canonical type has exactly one such line, in the section of
\* get_canonical of its type, and its output ends.
C25_AlreadyShownOnce ==
    /\ \A i \in 1..Len(cursorText) :
          cursorText[i].type = "shown"
          => /\ i > 1
             /\ cursorText[i - 1].type = "header"
             /\ cursorText[i - 1].deep = cursorText[i].deep
             /\ cursorText[i].tag = "special"
             /\ i < Len(cursorText)
                => /\ cursorText[i + 1].type \in {"header", "close", "more"}
                   /\ cursorText[i + 1].deep <= cursorText[i].deep
    /\ outCursor = "v"
       => /\ Cardinality({i \in 1..Len(cursorText) : cursorText[i].type = "shown"}) = 1
          /\ \A i \in 1..Len(cursorText) :
                cursorText[i].type = "shown"
                => cursorText[i - 1].name = N_get_canonical /\ cursorText[i].deep = 1
          /\ \A i \in 1..Len(cursorText) : cursorText[i].type # "deep"

\* the output of that variable, with lines after the '... already shown!'
C25_Witness ==
    /\ op.name = "on_cursor_selection"
    /\ outCursor = "v"
    /\ error = "none"
    /\ \E i \in 2..(Len(cursorText) - 1) :
          /\ cursorText[i].type = "shown"
          /\ cursorText[i - 1].node = <<3, 0>>
          /\ cursorText[i + 1].type = "header"

\* the values of the iterable that calling an attribute of cursor c gives
\* (the cursors of these translation units have one such attribute)
IterItems(c) ==
    LET a == CHOOSE a \in Range(Attrs[c]) : a.v.t = "method" /\ a.v.items[1].t = "iter"
    IN  a.v.items[1].items

\* the lines of the text that are the headers of the values of an iterable
\* attribute of the cursor
EntryLines == {i \in 1..Len(cursorText) :
                  cursorText[i].type = "header" /\ Len(cursorText[i].node) = 2}

C27_FailureShownInline ==
    /\ error = "none"
    /\ outCursor # None
       => {cursorText[i].name : i \in {j \in 1..Len(cursorText) :
                                         cursorText[j].type = "header" /\ cursorText[j].deep = 0}}
          = {a.name : a \in {x \in Range(Attrs[outCursor]) : x.name[1] # "_" /\ x.v.t # "func"}}

\* C28: for every line of the text, find_section gives a section with a
\* start line at or before that line whenever the fold tree has one, be the
\* line a header or a line of a section's body, and None only when no
\* section has a start line at or before it.
C28_FindSectionContaining ==
    \A line \in 1..Len(cursorText) :
       LET found == find_section(foldTree, line)
       IN  IF \E p \in DOMAIN foldTree :
                 foldTree[p].startLine > 0 /\ foldTree[p].startLine <= line
           THEN /\ found # <<>>
                /\ foldTree[found].startLine > 0
                /\ foldTree[found].startLine <= line
           ELSE found = <<>>

\* C29: in the fold tree, every section with a start line is what
\* find_section gives for that line; the members before it all have start
\* lines, smaller than its own; the section it is a member of, if that is
\* not the root, has a smaller start line; and no other section has the
\* same start line.
C29_FindSectionFindsActive ==
    \A p \in DOMAIN foldTree :
       (p # <<>> /\ foldTree[p].startLine > 0)
       => LET parent == SubSeq(p, 1, Len(p) - 1)
              childNr == p[Len(p)]
          IN  /\ find_section(foldTree, foldTree[p].startLine) = p
              /\ \A k \in 0..(childNr - 1) :
                    /\ foldTree[Append(parent, k)].startLine > 0
                    /\ foldTree[Append(parent, k)].startLine < foldTree[p].startLine
              /\ parent # <<>>
                 => /\ foldTree[parent].startLine > 0
                    /\ foldTree[parent].startLine < foldTree[p].startLine
              /\ \A q \in DOMAIN foldTree :
                    foldTree[q].startLine = foldTree[p].startLine => q = p

\* an output with a section three levels down that is not the first member
\* of its section, found by its start line, and with a section left without
\* a start line
C29_Witness ==
    /\ op.name = "on_cursor_selection"
    /\ \E p \in DOMAIN foldTree :
          /\ Len(p) >= 3
          /\ p[Len(p)] >= 1
          /\ foldTree[p].startLine > 0
          /\ find_section(foldTree, foldTree[p].startLine) = p
    /\ \E q \in DOMAIN foldTree : q # <<>> /\ foldTree[q].startLine = 0

\* C30: get_child(num) on a section that has a member with that number
\* changes nothing; on any other it adds sections behind the members there
\* are until there are num + 1, and every section added has the deep of the
\* section it is a member of plus one, show_default as its show, no members,
\* no start line, and as childNr its own place among the members.
C30_GetChildDense ==
    \A path \in DOMAIN foldTree, num \in 0..MaxChildNum :
       LET new == get_child(foldTree, show_default, path, num)
           have == IF foldTree[path].members = -1 THEN 0 ELSE foldTree[path].members
       IN  IF num < have THEN new = foldTree
           ELSE /\ DOMAIN new = DOMAIN foldTree \cup {Append(path, k) : k \in have..num}
                /\ new[path] = [foldTree[path] EXCEPT !.members = num + 1]
                /\ \A p \in DOMAIN foldTree \ {path} : new[p] = foldTree[p]
                /\ \A k \in have..num :
                      new[Append(path, k)] = [startLine |-> 0, show |-> show_default,
                                              members |-> -1, childNr |-> k,
                                              deep |-> foldTree[path].deep + 1]

----------------------------------------------------------------------------
\* Properties of the output as the user sees it

\* the lines of the body of the section of deep n whose header is in line h:
\* the run of lines with tag section_n that follows the header
Body(h, n) ==
    {i \in (h + 1)..Len(cursorText) : \A j \in (h + 1)..i : n \in cursorText[j].section}

\* C31: for every section of the fold tree whose header and body are in the
\* text, whatever its deep, the glyph of its header is '+' and every line of
\* its body has the tag section_hidden_n of its deep if show is not set, and
\* the glyph is '-' and no line of the body has that tag if show is set.
C31_FoldStateAgrees ==
    \A p \in DOMAIN foldTree :
       LET h == foldTree[p].startLine
           n == foldTree[p].deep
       IN  (h > 0 /\ h <= Len(cursorText) /\ Body(h, n) # {})
           => /\ cursorText[h].glyph = IF foldTree[p].show THEN "-" ELSE "+"
              /\ \A i \in Body(h, n) : (n \in cursorText[i].hidden) <=> ~foldTree[p].show

\* C32: a click on the [+] or [-] of a header changes show of exactly one
\* section, the one that starts in a line whose glyph the click changes, to
\* the opposite of what it was ([-] written for show set, [+] for not set);
\* show of every other section, show_default, the marker of the fold tree,
\* the start lines and everything outside the output of the cursor stay as
\* they are.
C32_SectionClickFlipsOne ==
    [][ op'.name = "on_section_click"
        => /\ \E p \in DOMAIN foldTree :
                 /\ foldTree[p].startLine > 0
                 /\ foldTree' = [foldTree EXCEPT ![p].show = ~foldTree[p].show]
                 /\ cursorText'[foldTree[p].startLine].glyph
                       = IF foldTree[p].show THEN "+" ELSE "-"
                 /\ \A i \in 1..Len(cursorText) :
                       i # foldTree[p].startLine => cursorText'[i].glyph = cursorText[i].glyph
           /\ Len(cursorText') = Len(cursorText)
           /\ UNCHANGED <<show_default, foldMarker, outCursor, cursorList, astVars, focus,
                          curIID, curCursor, historyVars, searchVars, doublesBtns, searchBtn,
                          markerVars>>
      ]_vars

\* a section was unfolded by a click and folded again by the next one, the
\* sections around it and below it keeping their show
C32_Witness ==
    /\ op = [name |-> "on_section_click", branch |-> "hide"]
    /\ folds = 2
    /\ ~show_default
    /\ \A p \in DOMAIN foldTree : p # <<>> => ~foldTree[p].show
    /\ \E p \in DOMAIN foldTree : Len(p) >= 2 /\ foldTree[p].startLine > 0

\* the attributes of cursor c that are written: those of dir(c), in its
\* order, that are neither private nor functions
WrittenAttrs(c) ==
    LET written(a) == a.name[1] # "_" /\ a.v.t # "func"
    IN  SelectSeq(Attrs[c], written)

\* C33: every header of the text is written for the section whose number
\* among the members is the number of headers written before it for members
\* of the same section, so the numbers used are 0, 1, 2, ... in the order
\* of the lines; the k-th attribute of the cursor that is written (k from
\* 0) has section k of the root, whatever its name; a private attribute
\* and a function have no header, and in the tree of a first output that
\* no exception ends the root has exactly as many members as attributes are
\* written.
C33_SectionsByPosition ==
    LET headers == {i \in 1..Len(cursorText) : cursorText[i].type = "header"}
        top == {i \in headers : Len(cursorText[i].node) = 1}
        parent(i) == SubSeq(cursorText[i].node, 1, Len(cursorText[i].node) - 1)
    IN  /\ \A i \in headers :
              cursorText[i].node[Len(cursorText[i].node)]
                 = Cardinality({j \in headers : j < i /\ Len(cursorText[j].node) = Len(cursorText[i].node)
                                                     /\ parent(j) = parent(i)})
        /\ outCursor # None
           => /\ \A i \in top :
                    cursorText[i].name = WrittenAttrs(outCursor)[cursorText[i].node[1] + 1].name
              /\ \A i \in headers : cursorText[i].name[1] # "_"
              /\ FirstOutput(outCursor).err = "none"
                 => /\ Cardinality(top) = Len(WrittenAttrs(outCursor))
                    /\ FirstOutput(outCursor).fold[<<>>].members = Len(WrittenAttrs(outCursor))

\* the output of the pointer variable: its attributes are _tu, from_param,
\* get_arguments, kind and type, and kind, the fourth, has section 1
C33_Witness ==
    /\ op.name = "on_cursor_selection"
    /\ outCursor = "p"
    /\ Attrs["p"][1].name[1] = "_"
    /\ Attrs["p"][2].v.t = "func"
    /\ Attrs["p"][4].name = N_kind
    /\ \E i \in 1..Len(cursorText) :
          /\ cursorText[i].type = "header"
          /\ cursorText[i].name = N_kind
          /\ cursorText[i].node = <<1>>
          /\ foldTree[<<1>>].startLine = i

\* what the dialog asks for, said for one item: the kind of its cursor is
\* the chosen one if the kind is used, and its spelling is the text (exact
\* mode), is the text but for the case of the letters (case-insensitive
\* mode), or starts with what the pattern stands for (regular expression)
SearchMatches(iid, d) ==
    LET c == mapIIDtoCursor[iid]
        label == TranslationUnits[translationunit].spelling[c]
        n == Len(d.spelling)
    IN  /\ d.use_CursorKind => TranslationUnits[translationunit].kind[c] = d.CursorKind
        /\ CASE d.use_RexEx /\ d.caseInsensitive ->
                   n <= Len(label) /\ \A i \in 1..n : LowerChar(label[i]) = LowerChar(d.spelling[i])
              [] d.use_RexEx /\ ~d.caseInsensitive ->
                   n <= Len(label) /\ \A i \in 1..n : label[i] = d.spelling[i]
              [] ~d.use_RexEx /\ d.caseInsensitive ->
                   n = Len(label) /\ \A i \in 1..n : LowerChar(label[i]) = LowerChar(d.spelling[i])
              [] OTHER -> label = d.spelling

\* C34: a search whose pattern is valid returns exactly the items whose
\* cursor passes the kind filter, if it is used, and the text match of the
\* chosen mode: every such item is in the result once, so a cursor with k
\* items gives all k, and no other item is in it.
C34_SearchReturnsMatches ==
    [][\A d \in SearchData :
          (on_search(<<d>>) /\ (d.use_RexEx => d.spelling # <<"(">>))
          => \A iid \in DOMAIN mapIIDtoCursor \cup Range(searchResult') :
                /\ iid \in DOMAIN mapIIDtoCursor
                /\ Cardinality({i \in 1..Len(searchResult') : searchResult'[i] = iid})
                      = IF SearchMatches(iid, d) THEN 1 ELSE 0]_vars

\* a search has found both items of one cursor and has left out an item
C34_Witness ==
    /\ op = [name |-> "on_search", branch |-> "found"]
    /\ \E i, j \in 1..Len(searchResult) :
          /\ i # j
          /\ mapIIDtoCursor[searchResult[i]] = mapIIDtoCursor[searchResult[j]]
    /\ \E iid \in DOMAIN mapIIDtoCursor : iid \notin Range(searchResult)

----------------------------------------------------------------------------
\* SpecGoto: the ways to a cursor that are no click in the Treeview.  The
\* user parses the translation unit with a cursor found twice, selects
\* items, follows links of the output and marks cursors and jumps to them.

NextGoto ==
    \/ MarkerParse
    \/ TreeClick
    \/ CursorClick
    \/ OnCursorSelection
    \/ OnMarkerSet
    \/ OnMarkerX

SpecGoto == Init /\ [][NextGoto]_vars

\* the items of cursor n and the first of them in the order the tree is
\* walked, which is the order the items are made in
PositionsOf(n) == {iid \in DOMAIN mapIIDtoCursor : mapIIDtoCursor[iid] = n}
FirstPosition(n) == CHOOSE iid \in PositionsOf(n) : \A other \in PositionsOf(n) : iid <= other

\* a click on a link or a jump to a marked cursor ran last
IsGoto(o) ==
    \/ o.name = "on_cursor_click"
    \/ \E num \in 0..(MARKER_BTN_CNT - 1) : o = [name |-> MarkerCommand(num), branch |-> "goto"]

\* C35: a click on a link to cursor n, and a click on [M#] that holds n,
\* select the first item of n, whatever item of n was shown when n was
\* marked or is shown now; the selection is handled like every other one:
\* the item becomes the current one and the last entry of the history
\* unless it is the current item already, and then the history stays.
C35_GotoSelectsFirst ==
    [][/\ \A n \in DOMAIN mapCursorToIID :
             on_cursor_click(n) => focus' = FirstPosition(n)
       /\ \A num \in 0..(MARKER_BTN_CNT - 1) :
             (op' = [name |-> MarkerCommand(num), branch |-> "goto"])
             => /\ error' = "none"
                /\ focus' = FirstPosition(marker[num])
       /\ (IsGoto(op') /\ focus' # curIID) => pendingSelect'
       /\ (IsGoto(op) /\ op'.name = "on_cursor_selection")
          => IF focus # curIID
             THEN /\ curIID' = focus
                  /\ curCursor' = mapIIDtoCursor[focus]
                  /\ outCursor' = curCursor'
                  /\ history' = add_history(history, historyPos, focus).history
                  /\ historyPos' = Len(history') - 1
                  /\ history'[Len(history')] = focus
             ELSE UNCHANGED <<curIID, curCursor, history, historyPos>>]_vars

\* the second item of a cursor is shown and a click on the [M#] that holds
\* the cursor has selected the first one
C35_Witness ==
    /\ \E num \in 0..(MARKER_BTN_CNT - 1) :
          /\ op = [name |-> MarkerCommand(num), branch |-> "goto"]
          /\ marker[num] = curCursor
    /\ curIID \in PositionsOf(curCursor)
    /\ curIID # FirstPosition(curCursor)
    /\ focus = FirstPosition(curCursor)
    /\ pendingSelect

\* C36: every line of the shown output that heads a section is the start
\* line of that section in the fold tree, so find_section gives the section
\* for it and a click on its [+] or [-] folds or unfolds it; this holds
\* after every selection, also one of another item of the shown cursor,
\* which leaves the text as it is.
C36_ShownSectionsActive ==
    \A i \in 1..Len(cursorText) :
       cursorText[i].type = "header"
       => /\ find_section(foldTree, i) = cursorText[i].node
          /\ foldTree[cursorText[i].node].startLine = i

\* C37: in every state historyPos is -1 if and only if the history is
\* empty; if it is not empty, historyPos is an index of it and the entry
\* there is the current item; and the cursor the output shows is the cursor
\* of the current item (none if there is no current item).
C37_HistoryConsistent ==
    /\ (historyPos = -1) <=> (history = <<>>)
    /\ history # <<>>
       => /\ 0 <= historyPos
          /\ historyPos < Len(history)
          /\ history[historyPos + 1] = curIID
    /\ outCursor = get_current_cursor(mapIIDtoCursor, curIID)

\* C38: in every state with a search result that is not empty, searchPos is
\* an index of the result and no item is in the result twice.
C38_SearchPosValid ==
    searchResult # <<>>
    => /\ 0 <= searchPos
       /\ searchPos < Len(searchResult)
       /\ \A i, j \in 1..Len(searchResult) : searchResult[i] = searchResult[j] => i = j

\* a step back from the first item of a result with both items of one
\* cursor has led to the last one
C38_Witness ==
    /\ op = [name |-> "go_search_backward", branch |-> "moved"]
    /\ Len(searchResult) >= 2
    /\ searchPos = Len(searchResult) - 1
    /\ focus = searchResult[Len(searchResult)]
    /\ curIID = searchResult[1]
    /\ \E i, j \in 1..Len(searchResult) :
          i # j /\ mapIIDtoCursor[searchResult[i]] = mapIIDtoCursor[searchResult[j]]

----------------------------------------------------------------------------
\* SpecReplace: one translation unit after the other.  The user parses
\* (clang may fail to load the file), searches, which selects items, marks
\* cursors and jumps to them, and parses again.

NextReplace ==
    \/ MarkerParse
    \/ MarkerParseError
    \/ OnSearch
    \/ OnCursorSelection
    \/ OnMarkerSet
    \/ OnMarkerX

SpecReplace == Init /\ [][NextReplace]_vars

\* C39: in every state, also after the tree was replaced, every item in the
\* history and in the search result and the current item are items of the
\* tree shown now, and every [M#] that holds a cursor holds a cursor of
\* that tree; no handler ends with the KeyError of a lookup that fails.
C39_NothingStale ==
    /\ Range(history) \subseteq DOMAIN mapIIDtoCursor
    /\ Range(searchResult) \subseteq DOMAIN mapIIDtoCursor
    /\ curIID # NoIID => curIID \in DOMAIN mapIIDtoCursor
    /\ \A n \in DOMAIN marker : marker[n] # None => marker[n] \in DOMAIN mapCursorToIID
    /\ error # "KeyError"

\* the second tree is shown: a search has found items of it, one of them is
\* current and in the history, and its cursor is marked; no item of the
\* first tree is left
C39_Witness ==
    /\ parses = 2
    /\ searchResult # <<>>
    /\ curIID \in Range(searchResult)
    /\ curIID \in Range(history)
    /\ \E n \in DOMAIN marker : marker[n] = mapIIDtoCursor[curIID]
    /\ \A iid \in DOMAIN mapIIDtoCursor : iid > 3

\* C40: the root section of the fold tree is shown in every state, whatever
\* outputs, clicks on sections, "Expand all" and "Collapse all" there were.
C40_RootShown ==
    foldTree[<<>>].show

====
